---------------------------- MODULE Spec2Model ----------------------------
(***************************************************************************)
(* Continuous speech capture: the session state machine of                 *)
(* useBrowserAdaptiveSpeechRecognition (restart / watchdog / dedup logic)  *)
(* and its text similarity helpers.                                        *)
(*                                                                         *)
(* A text is a sequence of one-character strings, so that normalisation,   *)
(* substring tests and word splitting are computed character by character  *)
(* as the JavaScript source computes them.                                 *)
(***************************************************************************)
EXTENDS Integers, Sequences, FiniteSets, TLC

(***************************************************************************)
(* Characters                                                              *)
(***************************************************************************)

\* /[.,!?;:'"]/ of normalizeForComparison
PunctuationSet == {".", ",", "!", "?", ";", ":", "'", "\""}

\* what \s and String.prototype.trim treat as white space (the model's texts
\* use the space character only)
WhiteSpace == {" "}

UpperToLower ==
    [c \in {"A", "I", "T", "Y"} |->
        CASE c = "A" -> "a" [] c = "I" -> "i" [] c = "T" -> "t" [] c = "Y" -> "y"]

\* String.prototype.toLowerCase, one character
LowerChar(c) == IF c \in DOMAIN UpperToLower THEN UpperToLower[c] ELSE c

Empty == << >>

(***************************************************************************)
(* String primitives of the JavaScript runtime, on character sequences     *)
(***************************************************************************)

ToLowerCase(s) == [i \in 1..Len(s) |-> LowerChar(s[i])]

RECURSIVE TrimStart(_)
TrimStart(s) ==
    IF s = Empty THEN Empty
    ELSE IF Head(s) \in WhiteSpace THEN TrimStart(Tail(s)) ELSE s

RECURSIVE TrimEnd(_)
TrimEnd(s) ==
    IF s = Empty THEN Empty
    ELSE IF s[Len(s)] \in WhiteSpace THEN TrimEnd(SubSeq(s, 1, Len(s) - 1)) ELSE s

\* String.prototype.trim
Trim(s) == TrimEnd(TrimStart(s))

\* s.replace(/[.,!?;:'"]/g, '')
StripPunctuation(s) == SelectSeq(s, LAMBDA c : c \notin PunctuationSet)

\* s.replace(/\s+/g, ' ')
RECURSIVE CollapseSpaces(_)
CollapseSpaces(s) ==
    IF s = Empty THEN Empty
    ELSE IF Head(s) \in WhiteSpace
         THEN <<" ">> \o CollapseSpaces(TrimStart(s))
         ELSE <<Head(s)>> \o CollapseSpaces(Tail(s))

\* hay.includes(needle)
Includes(hay, needle) ==
    \E i \in 0..(Len(hay) - Len(needle)) : SubSeq(hay, i + 1, i + Len(needle)) = needle

\* s.slice(-n) for n >= 0 (slice(-0) is slice(0): the whole string)
SliceLast(s, n) ==
    IF n = 0 \/ n >= Len(s) THEN s ELSE SubSeq(s, Len(s) - n + 1, Len(s))

\* s.split(' '): the pieces between single spaces, empty pieces kept
RECURSIVE SplitSpace(_)
SplitSpace(s) ==
    IF \A i \in 1..Len(s) : s[i] # " " THEN <<s>>
    ELSE LET k == CHOOSE i \in 1..Len(s) :
                      s[i] = " " /\ \A j \in 1..(i - 1) : s[j] # " "
         IN  <<SubSeq(s, 1, k - 1)>> \o SplitSpace(SubSeq(s, k + 1, Len(s)))

\* ws.join(' ')
RECURSIVE JoinSpace(_)
JoinSpace(ws) ==
    IF ws = Empty THEN Empty
    ELSE IF Len(ws) = 1 THEN ws[1]
    ELSE ws[1] \o <<" ">> \o JoinSpace(Tail(ws))

\* s.split(/\s+/).filter(w => w.length > 0)
RECURSIVE SplitWords(_)
SplitWords(s) ==
    LET t == TrimStart(s)
    IN  IF t = Empty THEN Empty
        ELSE IF \A i \in 1..Len(t) : t[i] \notin WhiteSpace THEN <<t>>
        ELSE LET k == CHOOSE i \in 1..Len(t) :
                          t[i] \in WhiteSpace /\ \A j \in 1..(i - 1) : t[j] \notin WhiteSpace
             IN  <<SubSeq(t, 1, k - 1)>> \o SplitWords(SubSeq(t, k + 1, Len(t)))

\* ws.slice(-n) on an array, n > 0
LastN(ws, n) == IF n >= Len(ws) THEN ws ELSE SubSeq(ws, Len(ws) - n + 1, Len(ws))

Min(a, b) == IF a < b THEN a ELSE b

(***************************************************************************)
(* Text Similarity Utility                                                 *)
(***************************************************************************)

normalizeForComparison(text) ==
    CollapseSpaces(StripPunctuation(Trim(ToLowerCase(text))))

\* shorter.length / longer.length > 0.8, in integers (longer is not empty here)
RatioAbove80(shorter, longer) == Len(shorter) * 10 > Len(longer) * 8

\* a variant of areSimilarTexts below that takes a ratio of exactly 0.8 as similar
areSimilarTextsFromFourFifths(text1, text2) ==
    LET norm1 == normalizeForComparison(text1)
        norm2 == normalizeForComparison(text2)
        shorter == IF Len(norm1) < Len(norm2) THEN norm1 ELSE norm2
        longer == IF Len(norm1) >= Len(norm2) THEN norm1 ELSE norm2
    IN  \/ norm1 = norm2
        \/ /\ Includes(norm1, norm2) \/ Includes(norm2, norm1)
           /\ Len(shorter) * 10 >= Len(longer) * 8

areSimilarTexts(text1, text2) ==
    LET norm1 == normalizeForComparison(text1)
        norm2 == normalizeForComparison(text2)
        shorter == IF Len(norm1) < Len(norm2) THEN norm1 ELSE norm2
        longer == IF Len(norm1) >= Len(norm2) THEN norm1 ELSE norm2
    IN  \/ norm1 = norm2
        \/ /\ Includes(norm1, norm2) \/ Includes(norm2, norm1)
           /\ RatioAbove80(shorter, longer)

\* the test of one candidate prefix against the tail of the last segment
PrefixOverlaps(lastWords, prefix) ==
    \/ Includes(lastWords, prefix)
    \/ Includes(prefix, SliceLast(lastWords, Len(prefix)))

\* the candidate prefix lengths for which the loop returns
OverlapHits(newWords, lastWords) ==
    {i \in 1..Min(5, Len(newWords) - 1) :
        /\ PrefixOverlaps(lastWords, JoinSpace(SubSeq(newWords, 1, i)))
        /\ Trim(JoinSpace(SubSeq(newWords, i + 1, Len(newWords)))) # Empty}

\* the loop returns at the first hit
FirstHit(hits) == CHOOSE i \in hits : \A j \in hits : i <= j

getOverlapWithLastSegment(newText, lastSegment) ==
    IF lastSegment = Empty \/ newText = Empty
    THEN [hasOverlap |-> FALSE, trimmedText |-> newText]
    ELSE LET normNew == normalizeForComparison(newText)
             normLast == normalizeForComparison(lastSegment)
             lastWords == JoinSpace(LastN(SplitSpace(normLast), 5))
             newWords == SplitSpace(normNew)
             hits == OverlapHits(newWords, lastWords)
         IN  IF hits = {}
             THEN [hasOverlap |-> FALSE, trimmedText |-> newText]
             ELSE [hasOverlap |-> TRUE,
                   trimmedText |->
                       Trim(JoinSpace(SubSeq(newWords, FirstHit(hits) + 1, Len(newWords))))]

(***************************************************************************)
(* Program constants                                                       *)
(***************************************************************************)

CHROME_MAX_SESSION_MS == 35000
EDGE_MAX_SESSION_MS == 45000
RESTART_DELAY_MS == 200
\* the literal 300 of "browser.isEdge ? 300 : RESTART_DELAY_MS"
EDGE_RESTART_DELAY_MS == 300
MAX_SILENCE_BEFORE_RESTART_MS == 12000
\* "elapsed > 5000" of the watchdog's wedge detection
WARMUP_MS == 5000
MAX_CONSECUTIVE_FAILURES == 10
MAX_TRANSIENT_RETRIES == 3

(***************************************************************************)
(* Bounds of the model                                                     *)
(***************************************************************************)

\* engine instances constructed in one run (one per startListening call)
MaxEngines == 2
\* segments in the Segment Buffer
MaxSegments == 2
\* stop() grace timers pending at once
MaxGrace == 1
\* cap of the two failure counters in the untimed specifications
MaxCount == 1
MaxErrors == 14
StartTime == 1000
TimeStep == 5000
MaxNow == 51000
MaxNowShort == 16000

(***************************************************************************)
(* State                                                                   *)
(***************************************************************************)

VARIABLES
    browser,              \* detectBrowser(): "chrome", "edge" or "other"
    isSupported,          \* isSpeechRecognitionSupported()
    now,                  \* Date.now()
    engines,              \* every SpeechRecognition object constructed so far
    recognitionRef,       \* index into engines, 0 for null
    isRecording,          \* isRecordingRef
    isRestarting,         \* isRestartingRef
    isManualStop,         \* isManualStopRef
    sessionStart,         \* sessionStartRef
    lastResultAt,         \* lastResultAtRef
    watchdogTimer,        \* watchdogTimerRef holds a live interval
    consecutiveFailures,  \* consecutiveFailuresRef
    transientRetryCount,  \* transientRetryCountRef
    finalSegments,        \* finalSegmentsRef
    latestInterim,        \* latestInterimRef
    lastFinalText,        \* lastFinalTextRef
    isListening,          \* React state
    selectedAccent,       \* React state
    error,                \* React state: "none" for null, else the kind of Error
    finalTranscript,      \* React state
    rawTranscript,        \* React state
    words,                \* React state: the word entries, each a text and a wordId
    wordIdCounter,        \* wordIdCounterRef
    pauseMetrics,         \* React state: "none" for null, "metrics" for a getMetrics() value
    restartTimers,        \* pending setTimeout(restart continuation) callbacks
    restartDelays,        \* the delay, in ms, each of them was set with
    graceTimers,          \* pending setTimeout(stop continuation, 150) callbacks
    accentTimers,         \* pending setTimeout(() => startListening(), 300) callbacks
    calls,                \* what the last step invoked: engine primitives, setError, safeRestart
    overlapCall,          \* one call of getOverlapWithLastSegment: arguments, result
    trimCall,             \* one call of trimSilence: decoded audio, config, result
    textCall,             \* one call of areSimilarTexts or normalizeForComparison
    hist                  \* history of the run, observed for the scenario claims only

\* the variables of the recognition session
sessionVars ==
    <<browser, isSupported, now, engines, recognitionRef, isRecording, isRestarting,
      isManualStop, sessionStart, lastResultAt, watchdogTimer, consecutiveFailures,
      transientRetryCount, finalSegments, latestInterim, lastFinalText, isListening,
      selectedAccent, error, finalTranscript, rawTranscript, words, wordIdCounter,
      pauseMetrics, restartTimers, restartDelays, graceTimers, accentTimers, calls, hist>>

vars == <<sessionVars, overlapCall, trimCall, textCall>>

\* what config.accent || getStoredAccent() gives when the hook mounts
StoredAccent == "en-US"

\* recognition.lang left unset
NoLang == ""

\* no call of a module-level function is under observation
NoCall == [called |-> FALSE]

\* the state as one record, on which the handlers are functions
Cur ==
    [browser |-> browser, isSupported |-> isSupported, now |-> now, engines |-> engines,
     recognitionRef |-> recognitionRef, isRecording |-> isRecording,
     isRestarting |-> isRestarting, isManualStop |-> isManualStop,
     sessionStart |-> sessionStart, lastResultAt |-> lastResultAt,
     watchdogTimer |-> watchdogTimer, consecutiveFailures |-> consecutiveFailures,
     transientRetryCount |-> transientRetryCount, finalSegments |-> finalSegments,
     latestInterim |-> latestInterim, lastFinalText |-> lastFinalText,
     isListening |-> isListening,
     selectedAccent |-> selectedAccent, error |-> error, finalTranscript |-> finalTranscript,
     rawTranscript |-> rawTranscript, words |-> words, wordIdCounter |-> wordIdCounter,
     pauseMetrics |-> pauseMetrics, restartTimers |-> restartTimers,
     restartDelays |-> restartDelays,
     graceTimers |-> graceTimers, accentTimers |-> accentTimers, calls |-> Empty]

(***************************************************************************)
(* The history variable.  It is written by Observe alone and read by no    *)
(* handler.  mode "off" freezes it; "scenario" follows the finalized       *)
(* results, the restarts and the stop sequence; "errors" follows the error *)
(* events of one session; "stops" follows the caller's stop(), abort() and *)
(* start(); "events" keeps which callback or API function ran last;        *)
(* "fatal" keeps whether an error was surfaced since the last start().     *)
(***************************************************************************)

NoStop == [armed |-> FALSE, segments |-> Empty, interim |-> Empty, memo |-> Empty]

HistOf(mode) ==
    [mode |-> mode,
     restartedSince |-> FALSE,        \* the engine was restarted since the last appended final
     lastFinalAfterRestart |-> FALSE, \* ... and it was when the last final was appended
     atStop |-> NoStop,               \* the buffer, interim text and memo when stop() was called
     lastAppended |-> Empty,          \* the latest finalized result, as received, if it was appended
     discarded |-> Empty,             \* the finalized result just dropped as its fuzzy duplicate
     callerStopped |-> FALSE,         \* the caller called stop() or abort(), and not start() since
                                      \* (mode "restart": since the oldest pending restart was set)
     errors |-> Empty,                \* the error events handled since start() or a result
     failedRestarts |-> 0,            \* restart continuations whose start() threw
     fatals |-> 0,                    \* setError calls of handleError
     lastEntry |-> "none"]            \* the callback or API function that ran last

\* the one finalized text of a result event that holds nothing else
SingleFinal(input) ==
    IF Len(input) = 1 /\ input[1].isFinal THEN input[1].transcript ELSE Empty

\* entry: which callback or API function ran; input: the results of a result
\* event; s: the state the callback produced
Observe(entry, input, s) ==
    IF hist.mode = "scenario" THEN
        CASE entry = "startListening" -> HistOf("scenario")
          [] entry = "onresult" /\ isRecording ->
                IF Len(s.finalSegments) > Len(finalSegments)
                THEN [hist EXCEPT !.lastFinalAfterRestart = hist.restartedSince,
                                  !.restartedSince = FALSE,
                                  !.atStop = NoStop,
                                  !.lastAppended = s.lastFinalText,
                                  !.discarded = Empty]
                ELSE [hist EXCEPT !.atStop = NoStop,
                                  !.lastAppended =
                                      IF \E i \in 1..Len(input) : input[i].isFinal
                                      THEN Empty ELSE @,
                                  !.discarded =
                                      IF /\ SingleFinal(input) # Empty
                                         /\ hist.lastAppended # Empty
                                         /\ areSimilarTexts(SingleFinal(input), hist.lastAppended)
                                      THEN SingleFinal(input) ELSE Empty]
          [] entry = "restartTimer" /\ s.engines # engines ->
                [hist EXCEPT !.restartedSince = TRUE]
          [] entry = "stopListening" ->
                [hist EXCEPT !.atStop = [armed |-> TRUE, segments |-> finalSegments,
                                         interim |-> latestInterim,
                                         memo |-> lastFinalText]]
          [] entry = "clearTranscript" ->
                [hist EXCEPT !.atStop = NoStop, !.lastAppended = Empty, !.discarded = Empty]
          [] OTHER -> hist
    ELSE IF hist.mode = "errors" THEN
        CASE entry = "startListening" -> HistOf("errors")
          [] entry = "onresult" /\ isRecording ->
                [hist EXCEPT !.errors = Empty]
          [] entry \in {"network", "audio-capture", "service-not-allowed", "not-allowed"} ->
                [hist EXCEPT !.errors = Append(@, entry),
                             !.fatals = IF "setError" \in {s.calls[i] : i \in 1..Len(s.calls)}
                                        THEN @ + 1 ELSE @]
          [] entry = "restartTimer" /\ s.consecutiveFailures > consecutiveFailures ->
                [hist EXCEPT !.failedRestarts = @ + 1]
          [] OTHER -> hist
    ELSE IF hist.mode = "stops" THEN
        CASE entry \in {"stopListening", "abort"} -> [hist EXCEPT !.callerStopped = TRUE]
          [] entry = "startListening" -> [hist EXCEPT !.callerStopped = FALSE]
          [] OTHER -> hist
    ELSE IF hist.mode = "restart" THEN
        CASE entry \in {"stopListening", "abort"} -> [hist EXCEPT !.callerStopped = TRUE]
          [] entry = "onend" /\ restartTimers = Empty -> [hist EXCEPT !.callerStopped = FALSE]
          [] OTHER -> hist
    ELSE IF hist.mode = "events" THEN [hist EXCEPT !.lastEntry = entry]
    ELSE IF hist.mode = "fatal" THEN
        CASE entry = "startListening" -> HistOf("fatal")
          [] "setError" \in {s.calls[i] : i \in 1..Len(s.calls)} ->
                [hist EXCEPT !.fatals = 1]
          [] OTHER -> hist
    ELSE hist

\* the step's result becomes the next state
BecomesOn(entry, input, s) ==
    /\ hist' = Observe(entry, input, s)
    /\ browser' = s.browser
    /\ isSupported' = s.isSupported
    /\ now' = s.now
    /\ engines' = s.engines
    /\ recognitionRef' = s.recognitionRef
    /\ isRecording' = s.isRecording
    /\ isRestarting' = s.isRestarting
    /\ isManualStop' = s.isManualStop
    /\ sessionStart' = s.sessionStart
    /\ lastResultAt' = s.lastResultAt
    /\ watchdogTimer' = s.watchdogTimer
    /\ consecutiveFailures' = s.consecutiveFailures
    /\ transientRetryCount' = s.transientRetryCount
    /\ finalSegments' = s.finalSegments
    /\ latestInterim' = s.latestInterim
    /\ lastFinalText' = s.lastFinalText
    /\ isListening' = s.isListening
    /\ selectedAccent' = s.selectedAccent
    /\ error' = s.error
    /\ finalTranscript' = s.finalTranscript
    /\ rawTranscript' = s.rawTranscript
    /\ words' = s.words
    /\ wordIdCounter' = s.wordIdCounter
    /\ pauseMetrics' = s.pauseMetrics
    /\ restartTimers' = s.restartTimers
    /\ restartDelays' = s.restartDelays
    /\ graceTimers' = s.graceTimers
    /\ accentTimers' = s.accentTimers
    /\ calls' = s.calls
    /\ UNCHANGED <<overlapCall, trimCall, textCall>>

Becomes(entry, s) == BecomesOn(entry, Empty, s)

Called(s, what) == [s EXCEPT !.calls = Append(@, what)]

(***************************************************************************)
(* The recognition engine (the consumed capability): one record per        *)
(* constructed object.  status is "new" (never started), "starting"        *)
(* (start() accepted, onstart not yet delivered), "running", "stopping"    *)
(* (stop() accepted: late results, then onend), "aborting" (abort()        *)
(* accepted: onend only) or "ended".  listeningAtAttach is the value of    *)
(* isListening that the attached handleStart closed over.                  *)
(***************************************************************************)

EngineActive(s, e) == s.engines[e].status \in {"starting", "running"}

\* recognition.start() throws InvalidStateError unless the object is idle
StartThrows(s, e) == s.engines[e].status \notin {"new", "ended"}

EngineStart(s, e) ==
    IF StartThrows(s, e) THEN Called(s, "start")
    ELSE Called([s EXCEPT !.engines[e].status = "starting"], "start")

\* recognition.stop(): ignored by an object that is not active
EngineStop(s, e) ==
    IF EngineActive(s, e) THEN Called([s EXCEPT !.engines[e].status = "stopping"], "stop")
    ELSE Called(s, "stop")

\* recognition.abort(): ignored by an object that has ended or never started
EngineAbort(s, e) ==
    IF s.engines[e].status \in {"starting", "running", "stopping"}
    THEN Called([s EXCEPT !.engines[e].status = "aborting"], "abort")
    ELSE Called(s, "abort")

JoinSegments(segs) == JoinSpace(segs)

(***************************************************************************)
(* Helpers of the hook                                                     *)
(***************************************************************************)

shouldRestartOnError(s, errorType) ==
    IF errorType \in {"no-speech", "aborted"} THEN FALSE
    ELSE IF errorType \in {"network", "audio-capture", "service-not-allowed"} THEN TRUE
    ELSE IF s.browser = "edge" /\ errorType = "network" THEN TRUE
    ELSE FALSE

\* finalSegmentsRef.current[finalSegmentsRef.current.length - 1] || ''
LastSegment(segs) == IF segs = Empty THEN Empty ELSE segs[Len(segs)]

\* hasOverlap ? trimmedText : <the text itself>
OverlapTrimmed(text, segs) ==
    LET ov == getOverlapWithLastSegment(text, LastSegment(segs))
    IN  IF ov.hasOverlap THEN ov.trimmedText ELSE text

\* setFinalTranscript(fullTranscript); setRawTranscript(fullTranscript)
PublishTranscript(s) ==
    [s EXCEPT !.finalTranscript = JoinSegments(s.finalSegments),
              !.rawTranscript = JoinSegments(s.finalSegments)]

\* the useEffect on [isListening]: the interval exists exactly while isListening,
\* and is (re)created only when isListening changes
SetIsListening(s, v) ==
    IF s.isListening = v THEN s
    ELSE [s EXCEPT !.isListening = v, !.watchdogTimer = v]

\* browser.isEdge ? 300 : RESTART_DELAY_MS
RestartDelay(s) == IF s.browser = "edge" THEN EDGE_RESTART_DELAY_MS ELSE RESTART_DELAY_MS

\* setTimeout(<restart continuation>, delay).  Timers are kept in the order in
\* which they fire: a restart timer (200 or 300 ms) records how many of the
\* 150 ms stop timers pending when it is set must fire before it.
ScheduleRestart(s) ==
    [s EXCEPT !.restartTimers = Append(@, s.graceTimers),
              !.restartDelays = Append(@, RestartDelay(s))]

\* the callback that safeRestart's catch branch and both branches of handleEnd
\* hand to setTimeout (three textually identical copies)
RestartContinuation(s) ==
    IF ~s.isRecording \/ s.isManualStop THEN [s EXCEPT !.isRestarting = FALSE]
    ELSE LET s1 == [s EXCEPT !.isRestarting = FALSE,
                             !.sessionStart = s.now,
                             !.lastFinalText = Empty]
         IN  IF s1.recognitionRef = 0 THEN s1
             ELSE IF StartThrows(s1, s1.recognitionRef)
                  THEN [EngineStart(s1, s1.recognitionRef) EXCEPT
                            !.consecutiveFailures = @ + 1]
                  ELSE [EngineStart(s1, s1.recognitionRef) EXCEPT
                            !.transientRetryCount = 0]

\* a variant of safeRestart below without the test of isRestartingRef
safeRestartAgain(s, stopThrows) ==
    IF ~s.isRecording \/ s.isManualStop THEN s
    ELSE LET s1 == [s EXCEPT !.isRestarting = TRUE]
         IN  IF s1.recognitionRef = 0 THEN s1
             ELSE IF ~EngineActive(s1, s1.recognitionRef) /\ stopThrows
                  THEN ScheduleRestart(Called(s1, "stop"))
                  ELSE EngineStop(s1, s1.recognitionRef)

\* stopThrows: whether recognition.stop() throws when the object is not active
\* (the source provides for both outcomes)
safeRestart(s, stopThrows) ==
    IF ~s.isRecording \/ s.isManualStop THEN s
    ELSE IF s.isRestarting THEN s
    ELSE LET s1 == [s EXCEPT !.isRestarting = TRUE]
         IN  IF s1.recognitionRef = 0 THEN s1
             ELSE IF ~EngineActive(s1, s1.recognitionRef) /\ stopThrows
                  THEN ScheduleRestart(Called(s1, "stop"))
                  ELSE EngineStop(s1, s1.recognitionRef)

\* safeRestartRef.current()
CallSafeRestart(s, stopThrows) == safeRestart(Called(s, "safeRestart"), stopThrows)

(***************************************************************************)
(* onresult                                                                *)
(***************************************************************************)

\* the word entries made of the words of one segment: wordId is
\* wordIdCounterRef.current++, from the counter value first on
WordEntries(texts, first) ==
    [i \in 1..Len(texts) |-> [text |-> texts[i], wordId |-> first + i - 1]]

\* a variant of the loop body that skips a finalized result only when it equals
\* the last finalized text character for character
ResultIterationExactMatch(acc, result) ==
    IF result.isFinal
    THEN LET trimmed == Trim(result.transcript)
             st1 == [acc.st EXCEPT !.latestInterim = Empty]
             textToAdd == OverlapTrimmed(trimmed, st1.finalSegments)
         IN  IF trimmed = st1.lastFinalText THEN [acc EXCEPT !.st = st1]
             ELSE IF trimmed # Empty /\ textToAdd # Empty
                  THEN [acc EXCEPT
                            !.st = [st1 EXCEPT !.lastFinalText = trimmed,
                                               !.finalSegments = Append(@, textToAdd),
                                               !.wordIdCounter = @ + Len(SplitWords(textToAdd))],
                            !.newWords = @ \o WordEntries(SplitWords(textToAdd),
                                                          st1.wordIdCounter)]
                  ELSE [acc EXCEPT !.st = st1]
    ELSE [acc EXCEPT !.newInterimText = result.transcript,
                     !.st = [acc.st EXCEPT !.latestInterim = result.transcript]]

\* a variant of the loop body without the duplicate check
ResultIterationNoDuplicateCheck(acc, result) ==
    IF result.isFinal
    THEN LET trimmed == Trim(result.transcript)
             st1 == [acc.st EXCEPT !.latestInterim = Empty]
             textToAdd == OverlapTrimmed(trimmed, st1.finalSegments)
         IN  IF trimmed # Empty /\ textToAdd # Empty
             THEN [acc EXCEPT
                       !.st = [st1 EXCEPT !.lastFinalText = trimmed,
                                          !.finalSegments = Append(@, textToAdd),
                                          !.wordIdCounter = @ + Len(SplitWords(textToAdd))],
                       !.newWords = @ \o WordEntries(SplitWords(textToAdd),
                                                     st1.wordIdCounter)]
             ELSE [acc EXCEPT !.st = st1]
    ELSE [acc EXCEPT !.newInterimText = result.transcript,
                     !.st = [acc.st EXCEPT !.latestInterim = result.transcript]]

\* one iteration of the loop over e.results; acc carries the refs (st), newWords
\* and newInterimText
ResultIteration(acc, result) ==
    IF result.isFinal
    THEN LET trimmed == Trim(result.transcript)
             st1 == [acc.st EXCEPT !.latestInterim = Empty]
             textToAdd == OverlapTrimmed(trimmed, st1.finalSegments)
         IN  IF areSimilarTexts(trimmed, st1.lastFinalText) THEN [acc EXCEPT !.st = st1]
             ELSE IF trimmed # Empty /\ textToAdd # Empty
                  THEN [acc EXCEPT
                            !.st = [st1 EXCEPT !.lastFinalText = trimmed,
                                               !.finalSegments = Append(@, textToAdd),
                                               !.wordIdCounter = @ + Len(SplitWords(textToAdd))],
                            !.newWords = @ \o WordEntries(SplitWords(textToAdd),
                                                          st1.wordIdCounter)]
                  ELSE [acc EXCEPT !.st = st1]
    ELSE [acc EXCEPT !.newInterimText = result.transcript,
                     !.st = [acc.st EXCEPT !.latestInterim = result.transcript]]

RECURSIVE ResultLoop(_, _)
ResultLoop(acc, results) ==
    IF results = Empty THEN acc
    ELSE ResultLoop(ResultIteration(acc, Head(results)), Tail(results))

\* a variant of handleResult below that also returns once stop() was called
handleResultUnlessStopped(s, results) ==
    IF ~s.isRecording \/ s.isManualStop THEN s
    ELSE LET s1 == [s EXCEPT !.lastResultAt = s.now,
                             !.consecutiveFailures = 0,
                             !.transientRetryCount = 0]
             acc == ResultLoop([st |-> s1, newWords |-> Empty, newInterimText |-> Empty],
                               results)
         IN  IF acc.newWords # Empty
             THEN [PublishTranscript(acc.st) EXCEPT !.words = @ \o acc.newWords]
             ELSE acc.st

\* a variant of handleResult below that resets the failure counters only when
\* the event brought new words
handleResultResetsOnWords(s, results) ==
    IF ~s.isRecording THEN s
    ELSE LET s1 == [s EXCEPT !.lastResultAt = s.now]
             acc == ResultLoop([st |-> s1, newWords |-> Empty, newInterimText |-> Empty],
                               results)
         IN  IF acc.newWords # Empty
             THEN [PublishTranscript(acc.st) EXCEPT !.words = @ \o acc.newWords,
                                                    !.consecutiveFailures = 0,
                                                    !.transientRetryCount = 0]
             ELSE acc.st

handleResult(s, results) ==
    IF ~s.isRecording THEN s
    ELSE LET s1 == [s EXCEPT !.lastResultAt = s.now,
                             !.consecutiveFailures = 0,
                             !.transientRetryCount = 0]
             acc == ResultLoop([st |-> s1, newWords |-> Empty, newInterimText |-> Empty],
                               results)
         IN  IF acc.newWords # Empty
             THEN [PublishTranscript(acc.st) EXCEPT !.words = @ \o acc.newWords]
             ELSE acc.st

(***************************************************************************)
(* onerror                                                                 *)
(***************************************************************************)

\* a variant of the count below that shows the error from the third failure on
CountFailureShowsEarly(s) ==
    LET s1 == [s EXCEPT !.consecutiveFailures = @ + 1]
    IN  IF s1.consecutiveFailures >= MAX_TRANSIENT_RETRIES
        THEN Called([s1 EXCEPT !.error = "recognition"], "setError")
        ELSE s1

\* "Track consecutive failures" and "Only show error to user if critical"
CountFailure(s) ==
    LET s1 == [s EXCEPT !.consecutiveFailures = @ + 1]
    IN  IF s1.consecutiveFailures >= MAX_CONSECUTIVE_FAILURES
        THEN Called([s1 EXCEPT !.error = "recognition"], "setError")
        ELSE s1

\* a variant of the handler below in which every restartable error also counts
\* as a consecutive failure
handleErrorCountsEvery(s, errorType, stopThrows) ==
    IF errorType = "no-speech" \/ errorType = "aborted" THEN s
    ELSE IF s.isRecording /\ ~s.isManualStop /\ shouldRestartOnError(s, errorType)
         THEN LET s1 == [s EXCEPT !.transientRetryCount = @ + 1]
              IN  IF s1.transientRetryCount <= MAX_TRANSIENT_RETRIES
                  THEN CallSafeRestart(CountFailure(s1), stopThrows)
                  ELSE CountFailure(s1)
         ELSE CountFailure(s)

\* a variant of the handler below that counts the ignored kinds as failures
handleErrorCountsIgnored(s, errorType, stopThrows) ==
    IF s.isRecording /\ ~s.isManualStop /\ shouldRestartOnError(s, errorType)
    THEN LET s1 == [s EXCEPT !.transientRetryCount = @ + 1]
         IN  IF s1.transientRetryCount <= MAX_TRANSIENT_RETRIES
             THEN CallSafeRestart(s1, stopThrows)
             ELSE CountFailure(s1)
    ELSE CountFailure(s)

\* a variant of the handler below that retries one time more before counting
handleErrorRetriesOnceMore(s, errorType, stopThrows) ==
    IF errorType = "no-speech" \/ errorType = "aborted" THEN s
    ELSE IF s.isRecording /\ ~s.isManualStop /\ shouldRestartOnError(s, errorType)
         THEN LET s1 == [s EXCEPT !.transientRetryCount = @ + 1]
              IN  IF s1.transientRetryCount <= MAX_TRANSIENT_RETRIES + 1
                  THEN CallSafeRestart(s1, stopThrows)
                  ELSE CountFailure(s1)
         ELSE CountFailure(s)

handleError(s, errorType, stopThrows) ==
    IF errorType = "no-speech" \/ errorType = "aborted" THEN s
    ELSE IF s.isRecording /\ ~s.isManualStop /\ shouldRestartOnError(s, errorType)
         THEN LET s1 == [s EXCEPT !.transientRetryCount = @ + 1]
              IN  IF s1.transientRetryCount <= MAX_TRANSIENT_RETRIES
                  THEN CallSafeRestart(s1, stopThrows)
                  ELSE CountFailure(s1)
         ELSE CountFailure(s)

(***************************************************************************)
(* onend                                                                   *)
(***************************************************************************)

\* a variant of the flush below that empties the Segment Buffer instead of
\* appending the flushed text to it
flushInterimStartsAfresh(s) ==
    LET interim == Trim(s.latestInterim)
        textToFlush == OverlapTrimmed(interim, s.finalSegments)
    IN  IF interim = Empty THEN s
        ELSE IF areSimilarTexts(interim, s.lastFinalText)
             THEN [s EXCEPT !.latestInterim = Empty]
             ELSE PublishTranscript(
                      [s EXCEPT !.finalSegments = << >>,
                                !.latestInterim = Empty])

flushInterimIfAny(s) ==
    LET interim == Trim(s.latestInterim)
        textToFlush == OverlapTrimmed(interim, s.finalSegments)
    IN  IF interim = Empty THEN s
        ELSE IF areSimilarTexts(interim, s.lastFinalText)
             THEN [s EXCEPT !.latestInterim = Empty]
             ELSE PublishTranscript(
                      [s EXCEPT !.finalSegments =
                                    IF textToFlush # Empty THEN Append(@, textToFlush) ELSE @,
                                !.latestInterim = Empty])

\* a variant of handleEnd below that schedules nothing when a restart is
\* already in progress
handleEndSkipsWhenRestarting(s) ==
    LET s1 == flushInterimIfAny(s)
    IN  IF ~s1.isRecording \/ s1.isManualStop THEN s1
        ELSE IF s1.isRestarting THEN s1
        ELSE ScheduleRestart([s1 EXCEPT !.isRestarting = TRUE])

handleEnd(s) ==
    LET s1 == flushInterimIfAny(s)
    IN  IF ~s1.isRecording \/ s1.isManualStop THEN s1
        ELSE IF s1.isRestarting THEN ScheduleRestart(s1)
        ELSE ScheduleRestart([s1 EXCEPT !.isRestarting = TRUE])

(***************************************************************************)
(* onstart                                                                 *)
(***************************************************************************)

\* closedIsListening: the isListening of the render whose handleStart was attached
handleStart(s, closedIsListening) ==
    IF ~closedIsListening THEN [SetIsListening(s, TRUE) EXCEPT !.error = "none"] ELSE s

(***************************************************************************)
(* The watchdog interval callback                                          *)
(***************************************************************************)

maxSessionMs(s) ==
    IF s.browser = "chrome" THEN CHROME_MAX_SESSION_MS ELSE EDGE_MAX_SESSION_MS

\* now - sessionStartRef.current
Elapsed(s) == s.now - s.sessionStart

\* now - (lastResultAtRef.current || sessionStartRef.current)
SinceLastResult(s) ==
    s.now - (IF s.lastResultAt # 0 THEN s.lastResultAt ELSE s.sessionStart)

\* a variant of the test below that applies the 45 s ceiling to every browser
SessionExpiredEdgeCeiling(s) == Elapsed(s) > EDGE_MAX_SESSION_MS

\* "PROACTIVE RESTART: Before browser's cutoff"
SessionExpired(s) == Elapsed(s) > maxSessionMs(s)

\* "WEDGE DETECTION: No results for too long"
Wedged(s) == SinceLastResult(s) > MAX_SILENCE_BEFORE_RESTART_MS /\ Elapsed(s) > WARMUP_MS

\* a variant of the callback below without its first test
watchdogCallbackUnguarded(s, stopThrows) ==
    IF SessionExpired(s) THEN CallSafeRestart(s, stopThrows)
    ELSE IF Wedged(s) THEN CallSafeRestart(s, stopThrows)
    ELSE s

watchdogCallback(s, stopThrows) ==
    IF ~s.isRecording \/ s.isManualStop THEN s
    ELSE IF SessionExpired(s) THEN CallSafeRestart(s, stopThrows)
    ELSE IF Wedged(s) THEN CallSafeRestart(s, stopThrows)
    ELSE s

(***************************************************************************)
(* The public API                                                          *)
(***************************************************************************)

\* the object createRecognitionInstance returns, as made in a render whose
\* selectedAccent is closedAccent: Edge gets no language hint
createRecognitionInstance(s, closedAccent) ==
    [status |-> "new",
     lang |-> IF s.browser = "edge" THEN NoLang ELSE closedAccent]

\* a variant of startListening below that leaves the restart-in-progress flag
\* as it is
startListeningKeepsRestarting(s, closedIsListening, closedAccent) ==
    IF ~s.isSupported THEN Called([s EXCEPT !.error = "unsupported"], "setError")
    ELSE LET e == Len(s.engines) + 1
             recognition == createRecognitionInstance(s, closedAccent)
             s1 == [s EXCEPT
                        !.engines = Append(@, [status |-> recognition.status,
                                               lang |-> recognition.lang,
                                               listeningAtAttach |-> closedIsListening]),
                        !.recognitionRef = e,
                        !.isManualStop = FALSE,
                        !.isRecording = TRUE,
                        !.consecutiveFailures = 0,
                        !.transientRetryCount = 0,
                        !.wordIdCounter = 0,
                        !.finalSegments = Empty,
                        !.lastFinalText = Empty,
                        !.sessionStart = s.now,
                        !.lastResultAt = s.now]
         IN  EngineStart(s1, e)

\* closedIsListening, closedAccent: the isListening and the selectedAccent of
\* the render that made this startListening
startListening(s, closedIsListening, closedAccent) ==
    IF ~s.isSupported THEN Called([s EXCEPT !.error = "unsupported"], "setError")
    ELSE LET e == Len(s.engines) + 1
             recognition == createRecognitionInstance(s, closedAccent)
             s1 == [s EXCEPT
                        !.engines = Append(@, [status |-> recognition.status,
                                               lang |-> recognition.lang,
                                               listeningAtAttach |-> closedIsListening]),
                        !.recognitionRef = e,
                        !.isManualStop = FALSE,
                        !.isRecording = TRUE,
                        !.isRestarting = FALSE,
                        !.consecutiveFailures = 0,
                        !.transientRetryCount = 0,
                        !.wordIdCounter = 0,
                        !.finalSegments = Empty,
                        !.lastFinalText = Empty,
                        !.sessionStart = s.now,
                        !.lastResultAt = s.now]
         IN  EngineStart(s1, e)

\* a variant of the callback below that leaves latestInterimRef as it is
StopContinuationKeepsInterim(s) ==
    LET interim == Trim(s.latestInterim)
        s1 == [s EXCEPT !.isRecording = FALSE]
        textToFlush == OverlapTrimmed(interim, s1.finalSegments)
        s2 == IF interim # Empty /\ ~areSimilarTexts(interim, s1.lastFinalText)
                 /\ textToFlush # Empty
              THEN PublishTranscript([s1 EXCEPT !.finalSegments = Append(@, textToFlush)])
              ELSE s1
    IN  SetIsListening([s2 EXCEPT !.pauseMetrics = "metrics"], FALSE)

\* the callback stopListening hands to setTimeout(..., 150)
StopContinuation(s) ==
    LET interim == Trim(s.latestInterim)
        s1 == [s EXCEPT !.isRecording = FALSE]
        textToFlush == OverlapTrimmed(interim, s1.finalSegments)
        s2 == IF interim # Empty /\ ~areSimilarTexts(interim, s1.lastFinalText)
                 /\ textToFlush # Empty
              THEN PublishTranscript([s1 EXCEPT !.finalSegments = Append(@, textToFlush)])
              ELSE s1
    IN  SetIsListening([s2 EXCEPT !.latestInterim = Empty, !.pauseMetrics = "metrics"], FALSE)

stopListening(s) ==
    LET s1 == [s EXCEPT !.isManualStop = TRUE, !.watchdogTimer = FALSE]
        s2 == IF s1.recognitionRef # 0 THEN EngineStop(s1, s1.recognitionRef) ELSE s1
    IN  [s2 EXCEPT !.graceTimers = @ + 1]

abort(s) ==
    LET s1 == [s EXCEPT !.isManualStop = TRUE, !.isRecording = FALSE,
                        !.watchdogTimer = FALSE]
        s2 == IF s1.recognitionRef # 0
              THEN [EngineAbort(s1, s1.recognitionRef) EXCEPT !.recognitionRef = 0]
              ELSE s1
    IN  SetIsListening(s2, FALSE)

\* a variant of clearTranscript below that leaves the word list as it is
clearTranscriptKeepsWords(s) ==
    [s EXCEPT !.rawTranscript = Empty, !.finalTranscript = Empty,
              !.pauseMetrics = "none", !.wordIdCounter = 0,
              !.finalSegments = Empty, !.lastFinalText = Empty]

clearTranscript(s) ==
    [s EXCEPT !.rawTranscript = Empty, !.finalTranscript = Empty,
              !.words = Empty, !.pauseMetrics = "none", !.wordIdCounter = 0,
              !.finalSegments = Empty, !.lastFinalText = Empty]

\* the timer callback calls the startListening of the render in which this
\* setAccent was made, whose selectedAccent is the one before the update
setAccent(s, accent) ==
    LET s0 == [s EXCEPT !.selectedAccent = accent]
    IN  IF s.browser = "chrome" /\ s.isListening
        THEN LET s1 == stopListening(s0)
             IN  [s1 EXCEPT !.accentTimers =
                                Append(@, [grace |-> s1.graceTimers,
                                           restart |-> Len(s1.restartTimers),
                                           closedAccent |-> s.selectedAccent])]
        ELSE s0

(***************************************************************************)
(* Inputs                                                                  *)
(***************************************************************************)

Browsers == {"chrome", "edge", "other"}

ErrorKinds == {"no-speech", "aborted", "network", "audio-capture", "service-not-allowed",
               "not-allowed"}

\* one SpeechRecognitionResult: result[0].transcript and result.isFinal
ResultsOf(texts) == [transcript : texts, isFinal : BOOLEAN]

\* the slice e.results[e.resultIndex ..] of one result event: one finalized
\* span, one interim span, or a finalized span followed by the next interim span
EventsOver(finals, interims) ==
    {<<[transcript |-> t, isFinal |-> TRUE]>> : t \in finals}
        \cup {<<[transcript |-> t, isFinal |-> FALSE]>> : t \in interims}
        \cup {<<[transcript |-> t, isFinal |-> TRUE], [transcript |-> u, isFinal |-> FALSE]>> :
                  t \in finals, u \in interims}

FinalsIn(results) == Cardinality({i \in 1..Len(results) : results[i].isFinal})

\* the Segment Buffer stays within MaxSegments whatever the event appends now
\* and a later flush of the interim text appends
FitsBuffer(results) ==
    Len(finalSegments) + FinalsIn(results)
        + (IF \E i \in 1..Len(results) : ~results[i].isFinal THEN 1 ELSE 0) <= MaxSegments

(***************************************************************************)
(* Actions: the public API                                                 *)
(***************************************************************************)

StartListening(maxEngines) ==
    /\ Len(engines) < maxEngines
    /\ Becomes("startListening", startListening(Cur, isListening, selectedAccent))

StopListening ==
    /\ graceTimers < MaxGrace
    /\ Becomes("stopListening", stopListening(Cur))

Abort == Becomes("abort", abort(Cur))

ClearTranscript == Becomes("clearTranscript", clearTranscript(Cur))

SetAccent(accent) ==
    /\ graceTimers < MaxGrace
    /\ accentTimers = Empty
    /\ Becomes("setAccent", setAccent(Cur, accent))

(***************************************************************************)
(* Actions: engine callbacks, on any constructed object (the handlers stay *)
(* attached to an object after recognitionRef has moved on)                *)
(***************************************************************************)

OnStart(e) ==
    /\ engines[e].status = "starting"
    /\ Becomes("onstart", handleStart([Cur EXCEPT !.engines[e].status = "running"],
                                      engines[e].listeningAtAttach))

OnResult(e, results) ==
    /\ engines[e].status \in {"running", "stopping"}
    /\ FitsBuffer(results)
    /\ BecomesOn("onresult", results, handleResult(Cur, results))

OnError(e, errorType, stopThrows) ==
    /\ engines[e].status \in {"starting", "running", "stopping", "aborting"}
    /\ Becomes(errorType, handleError(Cur, errorType, stopThrows))

OnEnd(e) ==
    /\ engines[e].status \in {"starting", "running", "stopping", "aborting"}
    /\ Becomes("onend", handleEnd([Cur EXCEPT !.engines[e].status = "ended"]))

(***************************************************************************)
(* Actions: timers                                                         *)
(***************************************************************************)

\* a fired timer is one fewer to wait for
OneFewer(n) == IF n > 0 THEN n - 1 ELSE 0

AfterGrace(s) ==
    [s EXCEPT !.graceTimers = s.graceTimers - 1,
              !.restartTimers = [i \in 1..Len(s.restartTimers) |-> OneFewer(s.restartTimers[i])],
              !.accentTimers =
                  [i \in 1..Len(s.accentTimers) |->
                      [s.accentTimers[i] EXCEPT !.grace = OneFewer(@)]]]

AfterRestart(s) ==
    [s EXCEPT !.restartTimers = Tail(s.restartTimers),
              !.restartDelays = Tail(s.restartDelays),
              !.accentTimers =
                  [i \in 1..Len(s.accentTimers) |->
                      [s.accentTimers[i] EXCEPT !.restart = OneFewer(@)]]]

RestartTimerFires ==
    /\ restartTimers # Empty
    /\ Head(restartTimers) = 0
    /\ Becomes("restartTimer", RestartContinuation(AfterRestart(Cur)))

GraceTimerFires ==
    /\ graceTimers > 0
    /\ Becomes("graceTimer", StopContinuation(AfterGrace(Cur)))

\* setAccent's startListening is the one of the render in which isListening held
AccentTimerFires ==
    /\ accentTimers # Empty
    /\ Head(accentTimers).grace = 0
    /\ Head(accentTimers).restart = 0
    /\ Len(engines) < MaxEngines
    /\ Becomes("accentTimer", startListening([Cur EXCEPT !.accentTimers = Tail(@)], TRUE,
                                              Head(accentTimers).closedAccent))

WatchdogTick(stopThrows) ==
    /\ watchdogTimer
    /\ Becomes("watchdog", watchdogCallback(Called(Cur, "tick"), stopThrows))

\* Date.now() moves on.  The 150, 200 and 300 ms timers that are pending fire
\* before a step of TimeStep has passed.
AdvanceTime(maxNow) ==
    /\ now + TimeStep <= maxNow
    /\ restartTimers = Empty /\ graceTimers = 0 /\ accentTimers = Empty
    /\ Becomes("time", [Cur EXCEPT !.now = @ + TimeStep])

(***************************************************************************)
(* Specifications                                                          *)
(***************************************************************************)

SessionIdle(browsers, supported, mode) ==
    /\ hist = HistOf(mode)
    /\ browser \in browsers
    /\ isSupported \in supported
    /\ now = StartTime
    /\ engines = Empty
    /\ recognitionRef = 0
    /\ isRecording = FALSE
    /\ isRestarting = FALSE
    /\ isManualStop = FALSE
    /\ sessionStart = 0
    /\ lastResultAt = 0
    /\ watchdogTimer = FALSE
    /\ consecutiveFailures = 0
    /\ transientRetryCount = 0
    /\ finalSegments = Empty
    /\ latestInterim = Empty
    /\ lastFinalText = Empty
    /\ isListening = FALSE
    /\ selectedAccent = StoredAccent
    /\ error = "none"
    /\ finalTranscript = Empty
    /\ rawTranscript = Empty
    /\ words = Empty
    /\ wordIdCounter = 0
    /\ pauseMetrics = "none"
    /\ restartTimers = Empty
    /\ restartDelays = Empty
    /\ graceTimers = 0
    /\ accentTimers = Empty
    /\ calls = Empty

InitWith(browsers, supported, mode) ==
    /\ SessionIdle(browsers, supported, mode)
    /\ overlapCall = NoCall
    /\ trimCall = NoCall
    /\ textCall = NoCall

\* the steps of a session whose engine delivers the given texts and error kinds
SessionNext(finals, interims, kinds, maxEngines, maxCount) ==
    \/ StartListening(maxEngines)
    \/ StopListening
    \/ Abort
    \/ ClearTranscript
    \/ SetAccent(StoredAccent)
    \/ \E e \in 1..Len(engines) : OnStart(e)
    \/ \E e \in 1..Len(engines), results \in EventsOver(finals, interims) :
           OnResult(e, results)
    \/ \E e \in 1..Len(engines), k \in kinds, t \in BOOLEAN :
           /\ consecutiveFailures < maxCount
           /\ transientRetryCount < maxCount
           /\ OnError(e, k, t)
    \/ \E e \in 1..Len(engines) : OnEnd(e)
    \/ RestartTimerFires
    \/ GraceTimerFires
    \/ AccentTimerFires
    \/ \E t \in BOOLEAN : WatchdogTick(t)

\* texts of the main specification
TextA == <<"a">>
TextAPunct == <<"A", ".">>
TextAB == <<"a", " ", "b">>
MainFinals == {TextA, TextAPunct, TextAB}
MainInterims == {TextA}
MainErrors == {"aborted", "network", "not-allowed"}

Init == InitWith({"chrome"}, BOOLEAN, "off")

Next == SessionNext(MainFinals, MainInterims, MainErrors, MaxEngines, MaxCount)

Spec == Init /\ [][Next]_vars

(***************************************************************************)
(* The scenarios of one session: the engine delivers the sentences of the  *)
(* scenarios, is cut off and restarted, and the caller stops.              *)
(***************************************************************************)

WordI == <<"I">>
WordThink == <<"t", "h", "i", "n", "k">>
WordIts == <<"i", "t", "'", "s">>
WordImportant == <<"i", "m", "p", "o", "r", "t", "a", "n", "t">>
WordTo == <<"t", "o">>
WordConsider == <<"c", "o", "n", "s", "i", "d", "e", "r">>
WordAnd == <<"a", "n", "d">>
WordFinally == <<"f", "i", "n", "a", "l", "l", "y">>
WordSo == <<"s", "o">>

\* "I think it's important"
ThinkImportant == JoinSpace(<<WordI, WordThink, WordIts, WordImportant>>)
\* "it's important to consider"
ImportantToConsider == JoinSpace(<<WordIts, WordImportant, WordTo, WordConsider>>)
\* "I think it's important to consider"
ThinkImportantToConsider ==
    JoinSpace(<<WordI, WordThink, WordIts, WordImportant, WordTo, WordConsider>>)
\* "and finally"
AndFinally == JoinSpace(<<WordAnd, WordFinally>>)

\* "and so"
AndSo == JoinSpace(<<WordAnd, WordSo>>)

ScenarioFinals == {ThinkImportant, ImportantToConsider, AndSo}
ScenarioInterims == {AndFinally}

InitScenario == InitWith({"chrome", "edge"}, {TRUE}, "scenario")

NextScenario ==
    \/ StartListening(1)
    \/ StopListening
    \/ \E e \in 1..Len(engines) : OnStart(e)
    \/ \E e \in 1..Len(engines), results \in EventsOver(ScenarioFinals, ScenarioInterims) :
           OnResult(e, results)
    \/ \E e \in 1..Len(engines) : OnEnd(e)
    \/ RestartTimerFires
    \/ GraceTimerFires

SpecScenario == InitScenario /\ [][NextScenario]_vars

\* C1: when the finalized result "I think it's important" is the first segment
\* and, after an engine restart, the finalized result "it's important to
\* consider" has been appended as the second, the segments joined in order read
\* exactly "I think it's important to consider".
C1_OverlapTrimmedOnce ==
    (/\ Len(finalSegments) = 2
     /\ finalSegments[1] = ThinkImportant
     /\ lastFinalText = ImportantToConsider
     /\ hist.lastFinalAfterRestart
     /\ ~isManualStop)
        => JoinSegments(finalSegments) = ThinkImportantToConsider

\* the stop sequence has run its flush: the 150 ms continuation or the handler of
\* the engine's end event (or both)
StopFlushDone ==
    /\ isManualStop
    /\ recognitionRef # 0
    /\ graceTimers = 0 \/ engines[recognitionRef].status = "ended"

\* stop() was called with the interim text "and finally" pending, no result
\* event came afterwards, and the flush has run
StoppedWithAndFinally ==
    /\ hist.atStop.armed
    /\ Trim(hist.atStop.interim) = AndFinally
    /\ StopFlushDone

PassesUnchanged(text, segs, memo) ==
    /\ ~areSimilarTexts(text, memo)
    /\ ~getOverlapWithLastSegment(text, LastSegment(segs)).hasOverlap

WordYes == <<"y", "e", "s">>
WordAgree == <<"a", "g", "r", "e", "e">>
\* "yes i agree"
YesIAgree == JoinSpace(<<WordYes, <<"i">>, WordAgree>>)
\* "Yes, I agree."
YesIAgreePunct == JoinSpace(<<<<"Y", "e", "s", ",">>, <<"I">>, WordAgree \o <<".">>>>)
\* "agree" and "agreed"
Agree == WordAgree
Agreed == WordAgree \o <<"d">>

DedupFinals == {YesIAgree, YesIAgreePunct, WordYes, Agree, Agreed}
DedupInterims == {WordYes}

InitDedup == InitWith({"chrome"}, {TRUE}, "scenario")

NextDedup ==
    \/ StartListening(1)
    \/ ClearTranscript
    \/ \E e \in 1..Len(engines) : OnStart(e)
    \/ \E e \in 1..Len(engines), results \in EventsOver(DedupFinals, DedupInterims) :
           OnResult(e, results)
    \/ \E e \in 1..Len(engines) : OnEnd(e)
    \/ RestartTimerFires

SpecDedup == InitDedup /\ [][NextDedup]_vars

\* the result event that holds the one finalized text B
FinalEvent(B) == <<[transcript |-> B, isFinal |-> TRUE]>>

AdjacentDuplicates(segs) ==
    \E i \in 1..(Len(segs) - 1) : areSimilarTexts(segs[i], segs[i + 1])

\* C10 (as stated): in every reachable state no two adjacent segments of the
\* Segment Buffer are fuzzy duplicates.
C10_Original == ~AdjacentDuplicates(finalSegments)

\* C10 (amended): whenever a finalized result is appended whole (nothing trimmed
\* as overlap) directly after the segment that is the last finalized text of the
\* same engine run, the two adjacent segments are not fuzzy duplicates.
C10_NoDuplicateAppendedWhole ==
    [][(/\ Len(finalSegments') = Len(finalSegments) + 1
        /\ finalSegments # Empty
        /\ lastFinalText = LastSegment(finalSegments)
        /\ lastFinalText' = LastSegment(finalSegments'))
           => ~areSimilarTexts(LastSegment(finalSegments), LastSegment(finalSegments'))]_vars

\* "agree" was appended whole directly after "yes", in one engine run
C10_Witness ==
    /\ finalSegments = <<WordYes, Agree>>
    /\ lastFinalText = Agree
    /\ hist.lastAppended = Agree
    /\ ~hist.lastFinalAfterRestart

(***************************************************************************)
(* Errors: one recording session, never stopped by the caller, in which    *)
(* the engine reports six restartable errors and then unclassified errors, *)
(* with no result event in between; restarts run as the code schedules     *)
(* them.                                                                   *)
(***************************************************************************)

\* the kind of the n-th error of the scenario: six restartable errors, then
\* unclassified ones
ErrorScript(n) == IF n <= 6 THEN "network" ELSE "not-allowed"

ScriptedError ==
    \E e \in 1..Len(engines), stopThrows \in BOOLEAN :
        /\ Len(hist.errors) < MaxErrors
        /\ OnError(e, ErrorScript(Len(hist.errors) + 1), stopThrows)

InitErrors == InitWith({"chrome", "edge"}, {TRUE}, "errors")

NextErrors ==
    \/ StartListening(1)
    \/ \E e \in 1..Len(engines) : OnStart(e)
    \/ ScriptedError
    \/ \E e \in 1..Len(engines) : OnEnd(e)
    \/ RestartTimerFires

SpecErrors == InitErrors /\ [][NextErrors]_vars

InitWatchdog == InitWith({"chrome", "edge"}, {TRUE}, "off")

NextWatchdog ==
    \/ StartListening(1)
    \/ StopListening
    \/ Abort
    \/ \E e \in 1..Len(engines) : OnStart(e)
    \/ \E e \in 1..Len(engines) : OnResult(e, FinalEvent(TextA))
    \/ \E e \in 1..Len(engines) : OnEnd(e)
    \/ RestartTimerFires
    \/ GraceTimerFires
    \/ \E t \in BOOLEAN : WatchdogTick(t)
    \/ AdvanceTime(MaxNow)

SpecWatchdog == InitWatchdog /\ [][NextWatchdog]_vars

\* the step is a tick of the watchdog while the session is Listening
TickWhileListening ==
    /\ \E t \in BOOLEAN : WatchdogTick(t)
    /\ isListening /\ isRecording /\ ~isManualStop

SafeRestartInvoked == \E i \in 1..Len(calls') : calls'[i] = "safeRestart"

\* C7 (as stated): while Listening, every watchdog tick at which the time
\* elapsed since the engine session started has reached the profile ceiling
\* (35 s for Chrome, 45 s otherwise) invokes safeRestart.
C7_Original ==
    [][(TickWhileListening /\ Elapsed(Cur) >= maxSessionMs(Cur))
           => SafeRestartInvoked]_vars

\* C7 (amended): while Listening, every watchdog tick at which the time elapsed
\* since the engine session started exceeds the profile ceiling (35 s for
\* Chrome, 45 s otherwise) invokes safeRestart and leaves the restart in
\* progress; at a tick at which elapsed equals the ceiling and a result came
\* within the last 12 s, nothing is invoked.
C7_RestartOnceCeilingExceeded ==
    [][/\ (TickWhileListening /\ Elapsed(Cur) > maxSessionMs(Cur))
              => SafeRestartInvoked /\ isRestarting'
       /\ (TickWhileListening /\ Elapsed(Cur) = maxSessionMs(Cur)
               /\ SinceLastResult(Cur) <= MAX_SILENCE_BEFORE_RESTART_MS)
              => calls' = <<"tick">> /\ isRestarting' = isRestarting]_vars

\* a tick found the ceiling exceeded and a result younger than 12 s: the
\* proactive restart, not the wedge detection, has stopped the engine
C7_Witness ==
    /\ calls = <<"tick", "safeRestart", "stop">>
    /\ isRestarting
    /\ isListening
    /\ Elapsed(Cur) > maxSessionMs(Cur)
    /\ SinceLastResult(Cur) <= MAX_SILENCE_BEFORE_RESTART_MS

(***************************************************************************)
(* The watchdog around stop() and abort(): sessions that the caller stops, *)
(* aborts and starts again, over the first seconds of an engine session    *)
(* (long enough for the wedge detection to fire).                          *)
(***************************************************************************)

InitWatchdogStop == InitWith({"chrome", "edge"}, {TRUE}, "off")

NextWatchdogStop ==
    \/ StartListening(MaxEngines)
    \/ StopListening
    \/ Abort
    \/ \E e \in 1..Len(engines) : OnStart(e)
    \/ \E e \in 1..Len(engines) : OnEnd(e)
    \/ RestartTimerFires
    \/ GraceTimerFires
    \/ \E t \in BOOLEAN : WatchdogTick(t)
    \/ AdvanceTime(MaxNowShort)

SpecWatchdogStop == InitWatchdogStop /\ [][NextWatchdogStop]_vars

\* the session state: everything but the record of the calls of the last step
SessionState ==
    <<engines, recognitionRef, isRecording, isRestarting, isManualStop, sessionStart,
      lastResultAt, watchdogTimer, consecutiveFailures, transientRetryCount,
      finalSegments, latestInterim, lastFinalText, isListening, error,
      finalTranscript, rawTranscript, restartTimers, graceTimers, accentTimers>>

\* C8: the watchdog interval exists only while isListening holds; a tick that
\* finds the session not recording or the manual-stop flag set invokes nothing
\* and changes no session state; stop() and abort() leave no watchdog interval
\* behind, whatever the state they are called in.
C8_WatchdogIdleWhenStopped ==
    /\ [](watchdogTimer => isListening)
    /\ [][/\ ((\E t \in BOOLEAN : WatchdogTick(t)) /\ (~isRecording \/ isManualStop))
                 => calls' = <<"tick">> /\ UNCHANGED SessionState
          /\ (StopListening \/ Abort) => ~watchdogTimer']_vars

\* a tick has found the manual-stop flag set, past the silence ceiling, and has
\* invoked nothing
C8_Witness ==
    /\ calls = <<"tick">>
    /\ watchdogTimer
    /\ isManualStop
    /\ Wedged(Cur)

(***************************************************************************)
(* Stopping: sessions that the caller starts, stops, aborts, clears and    *)
(* starts again, with an accent change in between.                         *)
(***************************************************************************)

InitStop == InitWith({"chrome"}, {TRUE}, "stops")

NextStop == SessionNext({TextA}, {TextA}, {"network"}, MaxEngines, MaxCount)

SpecStop == InitStop /\ [][NextStop]_vars

\* the session was aborted, or stopped to the end, and no stop() is under way
Cancelled == recognitionRef = 0 /\ isManualStop /\ ~isRecording /\ graceTimers = 0

\* C5: once abort() has run, whatever the pending interim text, the Segment
\* Buffer and the transcript stay as they are through every later step (the
\* engine's end event among them) until the caller calls start(), stop() or
\* clearTranscript().
C5_AbortDropsInterim ==
    [][(/\ Cancelled
        /\ Cancelled'
        /\ ~ClearTranscript)
           => UNCHANGED <<finalSegments, finalTranscript, rawTranscript>>]_vars

\* C6: after the caller has called stop() or abort(), no step invokes the
\* engine's start primitive until the caller calls start().
C6_NoStartAfterStop ==
    [][(hist.callerStopped /\ hist'.callerStopped)
           => \A i \in 1..Len(calls') : calls'[i] # "start"]_vars

\* C9: in every reachable state the exposed transcripts are the concatenation
\* of the segments in the Segment Buffer.
C9_TranscriptIsConcatenation ==
    /\ finalTranscript = JoinSegments(finalSegments)
    /\ rawTranscript = JoinSegments(finalSegments)

(***************************************************************************)
(* The Segment Buffer over a session: results with a finalized text or an  *)
(* interim one, ends and restarts, stop(), abort(), start() up to         *)
(* two times and clearTranscript().                                        *)
(***************************************************************************)

InitBuffer == InitWith({"chrome"}, {TRUE}, "off")

NextBuffer ==
    \/ StartListening(2)
    \/ StopListening
    \/ Abort
    \/ ClearTranscript
    \/ \E e \in 1..Len(engines) : OnStart(e)
    \/ \E e \in 1..Len(engines), results \in EventsOver({TextA}, {TextAB}) :
           OnResult(e, results)
    \/ \E e \in 1..Len(engines) : OnEnd(e)
    \/ RestartTimerFires
    \/ GraceTimerFires

SpecBuffer == InitBuffer /\ [][NextBuffer]_vars

\* segs is an initial part of more
IsPrefix(segs, more) ==
    /\ Len(segs) <= Len(more)
    /\ \A i \in 1..Len(segs) : more[i] = segs[i]

\* C11: every step other than start() (the caller's, or the one the accent
\* timer makes) and clearTranscript() leaves the Segment Buffer as an initial
\* part of the new buffer; and when a result event with one finalized text
\* lengthens the buffer, it does so by one segment, put last, which is that
\* text after overlap trimming against the segment before it.
C11_BufferAppendOnly ==
    [][/\ \/ IsPrefix(finalSegments, finalSegments')
          \/ StartListening(2)
          \/ AccentTimerFires
          \/ ClearTranscript
       /\ \A e \in 1..Len(engines) :
              (OnResult(e, FinalEvent(TextA)) /\ finalSegments' # finalSegments)
                  => finalSegments' = Append(finalSegments,
                                             OverlapTrimmed(TextA, finalSegments))]_vars

\* a segment from a finalized result and, after it, one from an interim flush
\* are in the buffer of a session that the caller has stopped
C11_Witness ==
    /\ finalSegments = <<TextA, <<"b">>>>
    /\ isManualStop
    /\ ~isRecording
    /\ graceTimers = 0

\* the engine instances that have been started and have not ended: they can
\* still deliver events to the handlers attached to them
LiveEngines ==
    {e \in 1..Len(engines) :
         engines[e].status \in {"starting", "running", "stopping", "aborting"}}

\* C12: at every moment at most one engine instance is live (started and not
\* yet ended) and able to deliver events into the session.
C12_AtMostOneLiveEngine == Cardinality(LiveEngines) <= 1

(***************************************************************************)
(* getOverlapWithLastSegment on its own: the arguments are drawn from the  *)
(* texts of up to MaxWords words over three one-letter words, and the one  *)
(* step is the call.                                                       *)
(***************************************************************************)

MaxWords == 3

OverlapWords == {<<"a">>, <<"b">>, <<"c">>}

TextsOf(vocabulary, maxWords) ==
    {JoinSpace(ws) : ws \in UNION {[1..n -> vocabulary] : n \in 1..maxWords}}

InitOverlap ==
    /\ SessionIdle({"chrome"}, {TRUE}, "off")
    /\ trimCall = NoCall
    /\ textCall = NoCall
    /\ overlapCall \in {[called |-> FALSE, newText |-> t, lastSegment |-> l] :
                            t \in TextsOf(OverlapWords, MaxWords),
                            l \in TextsOf(OverlapWords, MaxWords)}

CallGetOverlap ==
    /\ ~overlapCall.called
    /\ overlapCall' =
           [called |-> TRUE,
            newText |-> overlapCall.newText,
            lastSegment |-> overlapCall.lastSegment,
            result |-> getOverlapWithLastSegment(overlapCall.newText,
                                                 overlapCall.lastSegment)]
    /\ UNCHANGED <<sessionVars, trimCall, textCall>>

NextOverlap == CallGetOverlap

SpecOverlap == InitOverlap /\ [][NextOverlap]_vars

\* the k in 1..5 for which the first k words of newWords are the last k words
\* of lastWords and newWords has more than k words
SharedLengths(newWords, lastWords) ==
    {k \in 1..5 : /\ k < Len(newWords)
                  /\ k <= Len(lastWords)
                  /\ SubSeq(newWords, 1, k) = LastN(lastWords, k)}

\* C13: when, after normalization, the first k words of newText (1 <= k <= 5)
\* are the last k words of lastSegment and newText has more than k words, the
\* call removes exactly those k words (the longest such run) and returns the
\* remaining words, which are never the empty string.
C13_RemovesSharedWordsOnce ==
    overlapCall.called =>
        LET newWords == SplitSpace(normalizeForComparison(overlapCall.newText))
            lastWords == SplitSpace(normalizeForComparison(overlapCall.lastSegment))
            ks == SharedLengths(newWords, lastWords)
            k == CHOOSE i \in ks : \A j \in ks : j <= i
        IN  ks # {} =>
                /\ overlapCall.result.trimmedText =
                       JoinSpace(SubSeq(newWords, k + 1, Len(newWords)))
                /\ overlapCall.result.trimmedText # Empty

(***************************************************************************)
(* Changing the accent during a session on Chrome                          *)
(***************************************************************************)

Accents == {"en-US", "en-GB"}

InitAccent == InitWith({"chrome"}, {TRUE}, "off")

NextAccent ==
    \/ StartListening(MaxEngines)
    \/ StopListening
    \/ \E accent \in Accents : SetAccent(accent)
    \/ \E e \in 1..Len(engines) : OnStart(e)
    \/ \E e \in 1..Len(engines) : OnResult(e, FinalEvent(TextA))
    \/ \E e \in 1..Len(engines) : OnEnd(e)
    \/ RestartTimerFires
    \/ GraceTimerFires
    \/ AccentTimerFires

SpecAccent == InitAccent /\ [][NextAccent]_vars

\* C14: after setAccent(a) during Listening on Chrome, the engine instance
\* that the restart creates carries the language hint a (a is selectedAccent
\* from the call on: no other setAccent is taken while the timer is pending).
C14_RestartCarriesNewAccent ==
    [][(AccentTimerFires /\ Len(engines') > Len(engines))
           => engines'[Len(engines')].lang = selectedAccent']_vars

(***************************************************************************)
(* Audio Silence Trimmer.  Samples are integers (amplitude 1.0 is 1000),   *)
(* indexed from 0 as in the source: sample i is samples[i + 1].  The       *)
(* durations of a TrimConfig are held in milliseconds.  An RMS is held as  *)
(* the pair sq / n of the sum of squares and the number of samples, and    *)
(* every comparison of RMS values is made on the squares, in integers.     *)
(***************************************************************************)

\* Math.floor(sampleRate * seconds)
SamplesIn(sampleRate, ms) == (sampleRate * ms) \div 1000

\* a variant of the conversion below that drops the fraction of a millisecond
FloorMs(count, sampleRate) == (1000 * count) \div sampleRate

\* Math.round((count / sampleRate) * 1000), halves rounded up
RoundMs(count, sampleRate) == (2000 * count + sampleRate) \div (2 * sampleRate)

Max(a, b) == IF a > b THEN a ELSE b

RECURSIVE SumSquares(_, _, _)
SumSquares(samples, start, end) ==
    IF start >= end THEN 0
    ELSE samples[start + 1] * samples[start + 1] + SumSquares(samples, start + 1, end)

computeRMS(samples, start, length) ==
    LET end == Min(start + length, Len(samples))
        actualLength == end - start
    IN  IF actualLength <= 0 THEN [sq |-> 0, n |-> 1]
        ELSE [sq |-> SumSquares(samples, start, end), n |-> actualLength]

\* rms >= num / den and rms > num / den, for num, den >= 0
RmsAtLeast(rms, num, den) == rms.sq * den * den >= num * num * rms.n
RmsAbove(rms, num, den) == rms.sq * den * den > num * num * rms.n

\* rms < previousRMS * 0.8
RmsDropped(rms, previousRMS) == rms.sq * previousRMS.n * 100 < 64 * previousRMS.sq * rms.n

\* a variant of the scan below that cuts at the start of the loud window,
\* without stepping half a window back
RECURSIVE StartScanAtOnset(_, _, _, _, _)
StartScanAtOnset(samples, sampleRate, config, i, silentSamples) ==
    LET windowSamples == SamplesIn(sampleRate, config.windowSize)
        maxTrimSamples == SamplesIn(sampleRate, config.maxLeadingTrim)
        minSilenceSamples == SamplesIn(sampleRate, config.minSilenceDuration)
    IN  IF i < Len(samples) /\ i < maxTrimSamples
        THEN IF RmsAtLeast(computeRMS(samples, i, windowSamples), config.silenceThreshold, 1)
             THEN IF silentSamples >= minSilenceSamples THEN i ELSE 0
             ELSE StartScanAtOnset(samples, sampleRate, config, i + windowSamples,
                                   silentSamples + windowSamples)
        ELSE IF silentSamples >= minSilenceSamples
             THEN Min(silentSamples, maxTrimSamples)
             ELSE 0

\* the loop of findSpeechStart from window start i on, and what follows it
RECURSIVE StartScan(_, _, _, _, _)
StartScan(samples, sampleRate, config, i, silentSamples) ==
    LET windowSamples == SamplesIn(sampleRate, config.windowSize)
        maxTrimSamples == SamplesIn(sampleRate, config.maxLeadingTrim)
        minSilenceSamples == SamplesIn(sampleRate, config.minSilenceDuration)
    IN  IF i < Len(samples) /\ i < maxTrimSamples
        THEN IF RmsAtLeast(computeRMS(samples, i, windowSamples), config.silenceThreshold, 1)
             THEN IF silentSamples >= minSilenceSamples
                  THEN Max(0, i - (windowSamples \div 2))
                  ELSE 0
             ELSE StartScan(samples, sampleRate, config, i + windowSamples,
                            silentSamples + windowSamples)
        ELSE IF silentSamples >= minSilenceSamples
             THEN Min(silentSamples, maxTrimSamples)
             ELSE 0

findSpeechStart(samples, sampleRate, config) == StartScan(samples, sampleRate, config, 0, 0)

\* endThreshold is silenceThreshold * endThresholdMultiplier, the multiplier in tenths
isDecrescendo(rms, previousRMS, config) ==
    /\ previousRMS.sq > 0
    /\ rms.sq > 0
    /\ RmsDropped(rms, previousRMS)
    /\ RmsAbove(rms, 3 * config.silenceThreshold * config.endThresholdMultiplier, 100)

\* a variant of the test below that knows the end threshold only
EndsSpeechByThreshold(rms, previousRMS, config) ==
    RmsAtLeast(rms, config.silenceThreshold * config.endThresholdMultiplier, 10)

\* the window is taken for speech by the backward scan
EndsSpeech(rms, previousRMS, config) ==
    \/ RmsAtLeast(rms, config.silenceThreshold * config.endThresholdMultiplier, 10)
    \/ isDecrescendo(rms, previousRMS, config)

\* a variant of the scan below that puts the boundary at the end of the
\* speech window, without the trailing padding
RECURSIVE EndScanNoPadding(_, _, _, _, _, _)
EndScanNoPadding(samples, sampleRate, config, i, silentSamples, previousRMS) ==
    LET windowSamples == SamplesIn(sampleRate, config.windowSize)
        minSilenceSamples == SamplesIn(sampleRate, config.minSilenceDuration)
        maxTrailingTrimSamples == SamplesIn(sampleRate, config.maxTrailingTrim)
        rms == computeRMS(samples, i, windowSamples)
    IN  IF i < 0 THEN Len(samples)
        ELSE IF silentSamples > maxTrailingTrimSamples THEN Len(samples)
        ELSE IF EndsSpeech(rms, previousRMS, config)
             THEN IF silentSamples >= minSilenceSamples
                  THEN Min(Len(samples), i + windowSamples)
                  ELSE Len(samples)
             ELSE EndScanNoPadding(samples, sampleRate, config, i - windowSamples,
                                   silentSamples + windowSamples, rms)

\* the loop of findSpeechEnd from window start i down, and what follows it
RECURSIVE EndScan(_, _, _, _, _, _)
EndScan(samples, sampleRate, config, i, silentSamples, previousRMS) ==
    LET windowSamples == SamplesIn(sampleRate, config.windowSize)
        minSilenceSamples == SamplesIn(sampleRate, config.minSilenceDuration)
        maxTrailingTrimSamples == SamplesIn(sampleRate, config.maxTrailingTrim)
        trailingPaddingSamples == SamplesIn(sampleRate, config.trailingPadding)
        rms == computeRMS(samples, i, windowSamples)
    IN  IF i < 0 THEN Len(samples)
        ELSE IF silentSamples > maxTrailingTrimSamples THEN Len(samples)
        ELSE IF EndsSpeech(rms, previousRMS, config)
             THEN IF silentSamples >= minSilenceSamples
                  THEN Min(Len(samples), i + windowSamples + trailingPaddingSamples)
                  ELSE Len(samples)
             ELSE EndScan(samples, sampleRate, config, i - windowSamples,
                          silentSamples + windowSamples, rms)

findSpeechEnd(samples, sampleRate, config) ==
    EndScan(samples, sampleRate, config,
            Len(samples) - SamplesIn(sampleRate, config.windowSize), 0, [sq |-> 0, n |-> 1])

\* what the three early exits and the catch clause return
Passthrough(samples) ==
    [blob |-> "original", samples |-> samples, trimmedLeadingMs |-> 0, trimmedTrailingMs |-> 0]

\* a variant of the safety check below that lets the trim go one sample under
BelowMinimumByTwo(trimmedSamples, minSamples) == trimmedSamples < minSamples - 1

\* the safety check: the trim would leave less than minAudioDuration
BelowMinimum(trimmedSamples, minSamples) == trimmedSamples < minSamples

\* a variant of the test below that goes on to re-encode the whole audio
NothingToTrimIgnored(speechStart, speechEnd, length) == FALSE

\* no meaningful trim needed
NothingToTrim(speechStart, speechEnd, length) == speechStart = 0 /\ speechEnd = length

\* the try block has thrown
Thrown == [blob |-> "throw", samples |-> Empty, trimmedLeadingMs |-> 0, trimmedTrailingMs |-> 0]

\* the try block.  audio is what decodeAudioData gives: decoded FALSE when it
\* rejects, else the mono samples and the sample rate.  createBuffer throws
\* NotSupportedError on a length that is not positive.
TryTrim(audio, config) ==
    IF ~audio.decoded THEN Thrown
    ELSE LET samples == audio.samples
             sampleRate == audio.sampleRate
             speechStart == findSpeechStart(samples, sampleRate, config)
             speechEnd == IF config.trimTrailing
                          THEN findSpeechEnd(samples, sampleRate, config)
                          ELSE Len(samples)
             minSamples == SamplesIn(sampleRate, config.minAudioDuration)
             trimmedSamples == speechEnd - speechStart
         IN  IF BelowMinimum(trimmedSamples, minSamples) THEN Passthrough(samples)
             ELSE IF NothingToTrim(speechStart, speechEnd, Len(samples))
                  THEN Passthrough(samples)
             ELSE IF trimmedSamples <= 0 THEN Thrown
             ELSE [blob |-> "wav",
                   samples |-> SubSeq(samples, speechStart + 1, speechEnd),
                   trimmedLeadingMs |-> RoundMs(speechStart, sampleRate),
                   trimmedTrailingMs |->
                       Max(0, RoundMs(Len(samples) - speechEnd, sampleRate))]

\* a variant of trimSilence without the catch clause
trimSilenceUncaught(audio, config) == TryTrim(audio, config)

\* try { ... } catch { return the original blob and zero trims }
trimSilence(audio, config) ==
    LET outcome == TryTrim(audio, config)
    IN  IF outcome.blob = "throw" THEN Passthrough(audio.samples) ELSE outcome

(***************************************************************************)
(* trimSilence on its own: the audio and the configuration are drawn from  *)
(* bounded sets, and the one step is the call.                             *)
(***************************************************************************)

MaxSamples == 4

\* silence, a fading level (between 0.3 of the end threshold and the end
\* threshold), a level between the end and the start thresholds, speech
SampleLevels == {0, 3, 7, 12}

\* silence, two levels between 0.3 of the end threshold and the end threshold
\* (the lower more than 20% below the higher), speech
FadeLevels == {0, 3, 5, 12}

SampleRates == {1000, 1500}

\* audio that decodes to samples at a rate, and audio that does not decode
\* and so has no samples for the function to see
AudioOver(levels) ==
    {[decoded |-> TRUE, samples |-> ss, sampleRate |-> r] :
         ss \in UNION {[1..n -> levels] : n \in 0..MaxSamples},
         r \in SampleRates}
    \cup {[decoded |-> FALSE, samples |-> Empty, sampleRate |-> r] : r \in SampleRates}

AudioInputs == AudioOver(SampleLevels)

\* the thresholds are the defaults; windows hold at least one sample
TrimConfigs ==
    [silenceThreshold : {10},
     endThresholdMultiplier : {6},
     windowSize : {1, 2},
     minSilenceDuration : {1, 2},
     trimTrailing : BOOLEAN,
     maxLeadingTrim : {1, 3},
     maxTrailingTrim : {1, 3},
     trailingPadding : {0, 1},
     minAudioDuration : {0, 2}]

InitTrim ==
    /\ SessionIdle({"chrome"}, {TRUE}, "off")
    /\ overlapCall = NoCall
    /\ textCall = NoCall
    /\ \E a \in AudioInputs, c \in TrimConfigs :
           trimCall = [called |-> FALSE, audio |-> a, config |-> c]

\* the two boundaries the call computes (none when decoding fails)
DetectedStart(audio, config) ==
    IF audio.decoded THEN findSpeechStart(audio.samples, audio.sampleRate, config) ELSE 0

DetectedEnd(audio, config) ==
    IF audio.decoded /\ config.trimTrailing
    THEN findSpeechEnd(audio.samples, audio.sampleRate, config)
    ELSE Len(audio.samples)

CallTrimSilence ==
    /\ ~trimCall.called
    /\ trimCall' = [called |-> TRUE,
                    audio |-> trimCall.audio,
                    config |-> trimCall.config,
                    speechStart |-> DetectedStart(trimCall.audio, trimCall.config),
                    speechEnd |-> DetectedEnd(trimCall.audio, trimCall.config),
                    result |-> trimSilence(trimCall.audio, trimCall.config)]
    /\ UNCHANGED <<sessionVars, overlapCall, textCall>>

NextTrim == CallTrimSilence

SpecTrim == InitTrim /\ [][NextTrim]_vars

\* the configurations that differ in what findSpeechStart reads
LeadConfigs ==
    {c \in TrimConfigs :
         /\ ~c.trimTrailing
         /\ c.maxTrailingTrim = 1
         /\ c.trailingPadding = 0
         /\ c.minAudioDuration = 0}

\* the configurations that differ in what findSpeechEnd reads
TailConfigs ==
    {c \in TrimConfigs :
         /\ c.trimTrailing
         /\ c.maxLeadingTrim = 1
         /\ c.minAudioDuration = 0}

InitOn(audios, configs) ==
    /\ SessionIdle({"chrome"}, {TRUE}, "off")
    /\ overlapCall = NoCall
    /\ textCall = NoCall
    /\ \E a \in audios, c \in configs :
           trimCall = [called |-> FALSE, audio |-> a, config |-> c]

\* the call with the leading scan's inputs varied
InitLead == InitOn(AudioInputs, LeadConfigs)

SpecLead == InitLead /\ [][NextTrim]_vars

\* the call with the trailing scan's inputs varied, over audio with a fade
InitTail == InitOn(AudioOver(FadeLevels), TailConfigs)

SpecTail == InitTail /\ [][NextTrim]_vars

\* Math.floor(sampleRate * minAudioDuration) of the call under observation
MinSamplesOfCall == SamplesIn(trimCall.audio.sampleRate, trimCall.config.minAudioDuration)

\* C15 as stated: whatever the samples and the configuration, the returned
\* audio holds at least floor(sampleRate * minAudioDuration) samples.
C15_Original ==
    trimCall.called => Len(trimCall.result.samples) >= MinSamplesOfCall

\* C15: trimSilence never trims below minAudioDuration: the returned audio
\* holds at least floor(sampleRate * minAudioDuration) samples, or it is the
\* original audio with nothing removed.
C15_NeverTrimsBelowMinimum ==
    trimCall.called =>
        \/ /\ trimCall.result.blob = "wav"
           /\ Len(trimCall.result.samples) >= MinSamplesOfCall
        \/ /\ trimCall.result.blob = "original"
           /\ trimCall.result.samples = trimCall.audio.samples

\* leading silence was found in audio that is long enough, and the trim was
\* skipped because it would have left less than the minimum
C15_Witness ==
    /\ trimCall.called
    /\ trimCall.audio.decoded
    /\ Len(trimCall.audio.samples) >= MinSamplesOfCall
    /\ MinSamplesOfCall > 0
    /\ findSpeechStart(trimCall.audio.samples, trimCall.audio.sampleRate, trimCall.config) > 0
    /\ trimCall.result.blob = "original"

\* the backward scan's windows, counted from the end of the audio: window k
\* starts at sample WindowStart(k); the window scanned before window k is k - 1
WindowSamplesOfCall == SamplesIn(trimCall.audio.sampleRate, trimCall.config.windowSize)

WindowStart(k) == Len(trimCall.audio.samples) - (k + 1) * WindowSamplesOfCall

WindowRms(k) ==
    IF k < 0 THEN [sq |-> 0, n |-> 1]
    ELSE computeRMS(trimCall.audio.samples, WindowStart(k), WindowSamplesOfCall)

\* the windows the backward scan takes for speech
SpeechWindows ==
    {k \in 0..Len(trimCall.audio.samples) :
         /\ WindowStart(k) >= 0
         /\ EndsSpeech(WindowRms(k), WindowRms(k - 1), trimCall.config)}

\* the last one in time
LastSpeechWindow == CHOOSE k \in SpeechWindows : \A j \in SpeechWindows : k <= j

\* C16: with trimTrailing enabled, whenever findSpeechEnd places the boundary
\* before the end of the audio, the boundary lies at least
\* floor(sampleRate * trailingPadding) samples after the end of the last
\* detected speech window, and the samples removed from the tail are at most
\* floor(sampleRate * maxTrailingTrim).
C16_PaddingKeptAndTrimBounded ==
    (/\ trimCall.called
     /\ trimCall.audio.decoded
     /\ trimCall.config.trimTrailing
     /\ trimCall.speechEnd < Len(trimCall.audio.samples))
        => /\ SpeechWindows # {}
           /\ trimCall.speechEnd >=
                  WindowStart(LastSpeechWindow) + WindowSamplesOfCall
                      + SamplesIn(trimCall.audio.sampleRate, trimCall.config.trailingPadding)
           /\ Len(trimCall.audio.samples) - trimCall.speechEnd
                  <= SamplesIn(trimCall.audio.sampleRate, trimCall.config.maxTrailingTrim)

\* a boundary before the end of the audio, one padding after a speech window
\* that is followed by the greatest silence run the configuration lets go
C16_Witness ==
    /\ trimCall.called
    /\ trimCall.audio.decoded
    /\ trimCall.config.trimTrailing
    /\ trimCall.config.trailingPadding > 0
    /\ trimCall.speechEnd < Len(trimCall.audio.samples)
    /\ Len(trimCall.audio.samples) - trimCall.speechEnd
           = SamplesIn(trimCall.audio.sampleRate, trimCall.config.maxTrailingTrim)
               - SamplesIn(trimCall.audio.sampleRate, trimCall.config.trailingPadding)

\* C17: when the detected speech start is sample 0 and the detected speech
\* end is the total sample count, trimSilence returns the original blob with
\* both reported trims 0; and whenever it returns the original blob, both
\* reported trims are 0.
C17_OriginalBlobZeroTrims ==
    trimCall.called =>
        /\ (/\ trimCall.audio.decoded
            /\ trimCall.speechStart = 0
            /\ trimCall.speechEnd = Len(trimCall.audio.samples))
               => /\ trimCall.result.blob = "original"
                  /\ trimCall.result.samples = trimCall.audio.samples
        /\ trimCall.result.blob = "original"
               => /\ trimCall.result.trimmedLeadingMs = 0
                  /\ trimCall.result.trimmedTrailingMs = 0

\* audio at least as long as the minimum, with trailing trim enabled, in
\* which both boundaries are at the extremes, came back as the original blob
C17_Witness ==
    /\ trimCall.called
    /\ trimCall.audio.decoded
    /\ trimCall.config.trimTrailing
    /\ trimCall.speechStart = 0
    /\ trimCall.speechEnd = Len(trimCall.audio.samples)
    /\ Len(trimCall.audio.samples) >= MinSamplesOfCall
    /\ Len(trimCall.audio.samples) = MaxSamples
    /\ trimCall.result.blob = "original"
    /\ trimCall.result.trimmedLeadingMs = 0
    /\ trimCall.result.trimmedTrailingMs = 0

\* C18: trimSilence never raises: the call returns a blob in every case, and
\* when decoding or a later processing step throws, what it returns is the
\* original blob with both reported trims 0.
C18_NeverRaises ==
    trimCall.called =>
        /\ trimCall.result.blob \in {"original", "wav"}
        /\ TryTrim(trimCall.audio, trimCall.config).blob = "throw"
               => trimCall.result = Passthrough(trimCall.audio.samples)

\* audio that is silent throughout with no minimum duration configured: the
\* trimmed length is 0, creating the buffer throws, the original came back
C18_Witness ==
    /\ trimCall.called
    /\ trimCall.audio.decoded
    /\ trimCall.speechStart > 0
    /\ trimCall.speechEnd = trimCall.speechStart
    /\ MinSamplesOfCall = 0
    /\ trimCall.result = Passthrough(trimCall.audio.samples)

(***************************************************************************)
(* Error events of every kind, in a session the caller may stop, with      *)
(* results and restarts in between.  The two counters are followed up to   *)
(* MaxFailures and MaxTransient.                                           *)
(***************************************************************************)

MaxFailures == 11

MaxTransient == 5

RestartableKinds == {"network", "audio-capture", "service-not-allowed"}

IgnoredKinds == {"no-speech", "aborted"}

UnclassifiedKinds == {"not-allowed", "language-not-supported"}

BoundedError(errorType) ==
    \E e \in 1..Len(engines), stopThrows \in BOOLEAN :
        /\ consecutiveFailures < MaxFailures
        /\ transientRetryCount < MaxTransient
        /\ OnError(e, errorType, stopThrows)

InitErrorKinds == InitWith({"chrome", "edge"}, {TRUE}, "off")

NextErrorKinds ==
    \/ StartListening(1)
    \/ StopListening
    \/ \E e \in 1..Len(engines) : OnStart(e)
    \/ \E e \in 1..Len(engines) : OnResult(e, FinalEvent(TextA))
    \/ \E errorType \in RestartableKinds \cup IgnoredKinds \cup UnclassifiedKinds :
           BoundedError(errorType)
    \/ \E e \in 1..Len(engines) : OnEnd(e)
    \/ RestartTimerFires
    \/ GraceTimerFires

SpecErrorKinds == InitErrorKinds /\ [][NextErrorKinds]_vars

\* the step called setError: it surfaced an error to the caller
SetErrorCalled == \E i \in 1..Len(calls') : calls'[i] = "setError"

\* C19: an error event that leaves the consecutive-failure counter below 10
\* does not surface an error: it calls setError not at all and leaves the
\* caller-visible error as it was.
C19_NoErrorShownBelowTen ==
    [][\A errorType \in RestartableKinds \cup IgnoredKinds \cup UnclassifiedKinds :
           (BoundedError(errorType) /\ consecutiveFailures' < MAX_CONSECUTIVE_FAILURES)
               => (error' = error /\ ~SetErrorCalled)]_vars

\* nine failures have been counted in a session and no error is shown
C19_Witness ==
    /\ consecutiveFailures = MAX_CONSECUTIVE_FAILURES - 1
    /\ error = "none"
    /\ recognitionRef # 0

InitEvents == InitWith({"chrome", "edge"}, {TRUE}, "events")

SpecEvents == InitEvents /\ [][NextErrorKinds]_vars

\* the refs and the state of the session, without the history and the record
\* of the step's calls
SessionRefs ==
    <<engines, recognitionRef, isRecording, isRestarting, isManualStop, sessionStart,
      lastResultAt, watchdogTimer, consecutiveFailures, transientRetryCount, finalSegments,
      latestInterim, lastFinalText, isListening, selectedAccent, error, finalTranscript,
      rawTranscript, words, wordIdCounter, pauseMetrics, restartTimers, restartDelays,
      graceTimers, accentTimers>>

\* C21: an error event of kind no-speech or aborted changes nothing, in any
\* state: the counters, the flags, the Segment Buffer, the caller-visible
\* error and everything else of the session are as before, and the handler
\* calls nothing (no restart, no engine primitive, no setError).
C21_IgnoredErrorChangesNothing ==
    [][\A errorType \in IgnoredKinds :
           BoundedError(errorType) => (UNCHANGED SessionRefs /\ calls' = Empty)]_vars

\* a no-speech error has just been handled in a recording session in which
\* both counters are above 0
C21_Witness ==
    /\ hist.lastEntry = "no-speech"
    /\ isRecording
    /\ ~isManualStop
    /\ consecutiveFailures > 0
    /\ transientRetryCount > 0
    /\ error = "none"

(***************************************************************************)
(* The same session, with the history keeping whether the error handler    *)
(* has surfaced the fatal error since start().                             *)
(***************************************************************************)

InitFatal == InitWith({"chrome", "edge"}, {TRUE}, "fatal")

SpecFatal == InitFatal /\ [][NextErrorKinds]_vars

\* the step invoked the engine's start primitive
StartInvoked == \E i \in 1..Len(calls') : calls'[i] = "start"

\* C22: once the fatal error has been surfaced, and until the caller calls
\* start() again, no step appends a segment, invokes safeRestart or the
\* engine's start primitive, or schedules a restart.
C22_FatalIsTerminal ==
    [][(hist.fatals > 0 /\ ~StartListening(1))
           => /\ Len(finalSegments') <= Len(finalSegments)
              /\ ~SafeRestartInvoked
              /\ ~StartInvoked
              /\ Len(restartTimers') <= Len(restartTimers)]_vars

\* the step scheduled a restart continuation
RestartScheduled == Len(restartTimers') > Len(restartTimers)

\* the step is one that starts a session: start(), or setAccent's timer
SessionStartStep == StartListening(MaxEngines) \/ StartListening(1) \/ AccentTimerFires

\* C23: the engine's start primitive is invoked, after the first
\* time in a session, by a restart continuation only, and every restart
\* continuation is scheduled by the end-event handler: a step that invokes
\* safeRestart starts nothing and schedules nothing.
C23_RestartsOnlyFromEndHandler ==
    [][/\ StartInvoked => (SessionStartStep \/ RestartTimerFires)
       /\ RestartScheduled => \E e \in 1..Len(engines) : OnEnd(e)
       /\ SafeRestartInvoked => (~StartInvoked /\ ~RestartScheduled)]_vars

\* safeRestart has nothing to do: the session is not recording, or the
\* manual-stop flag is set, or a restart is in progress
NoRestartWanted == ~isRecording \/ isManualStop \/ isRestarting

\* C24: when the session is not recording, or the manual-stop flag is set, or
\* a restart is in progress, safeRestart returns the state it was given,
\* whatever stop() would do; and a watchdog tick that invokes it then calls no
\* engine primitive, changes no flag, counter or timer.
C24_SafeRestartNoOp ==
    [][NoRestartWanted =>
           /\ \A stopThrows \in BOOLEAN : safeRestart(Cur, stopThrows) = Cur
           /\ ((\E stopThrows \in BOOLEAN : WatchdogTick(stopThrows)) /\ SafeRestartInvoked)
                  => /\ UNCHANGED SessionRefs
                     /\ calls' = <<"tick", "safeRestart">>]_vars

\* a tick of the watchdog has invoked safeRestart during a restart, with the
\* engine stopping, and nothing else was called
C24_Witness ==
    /\ calls = <<"tick", "safeRestart">>
    /\ isRecording
    /\ ~isManualStop
    /\ isRestarting
    /\ recognitionRef # 0
    /\ engines[recognitionRef].status = "stopping"

(***************************************************************************)
(* A session of one engine in which the caller also clears the transcript  *)
(* and aborts, with the callback that ran last kept in the history.        *)
(***************************************************************************)

InitClear == InitWith({"chrome"}, {TRUE}, "events")

NextClear ==
    \/ StartListening(1)
    \/ StopListening
    \/ Abort
    \/ ClearTranscript
    \/ \E e \in 1..Len(engines) : OnStart(e)
    \/ \E e \in 1..Len(engines), results \in EventsOver({TextA}, {TextAB}) :
           OnResult(e, results)
    \/ BoundedError("network")
    \/ \E e \in 1..Len(engines) : OnEnd(e)
    \/ RestartTimerFires
    \/ GraceTimerFires

SpecClear == InitClear /\ [][NextClear]_vars

\* C25: clearTranscript() empties the Segment Buffer, the transcript, the word
\* list, the word sequence counter and the pause metrics, and leaves the engine
\* instance, the recording, manual-stop and restart-in-progress flags, the
\* timers and both failure counters as they are, in whatever state it is called.
C25_ClearEmptiesTranscriptOnly ==
    [][ClearTranscript =>
           /\ finalSegments' = Empty
           /\ finalTranscript' = Empty
           /\ rawTranscript' = Empty
           /\ words' = Empty
           /\ wordIdCounter' = 0
           /\ pauseMetrics' = "none"
           /\ calls' = Empty
           /\ UNCHANGED <<engines, recognitionRef, isRecording, isManualStop, isRestarting,
                          watchdogTimer, restartTimers, graceTimers, accentTimers,
                          consecutiveFailures, transientRetryCount>>]_vars

\* the transcript has just been cleared in a recording session whose engine is
\* running, while a restart is in progress and a failure has been counted
C25_Witness ==
    /\ hist.lastEntry = "clearTranscript"
    /\ isRecording
    /\ ~isManualStop
    /\ isRestarting
    /\ transientRetryCount > 0
    /\ recognitionRef > 0
    /\ words = Empty
    /\ wordIdCounter = 0

(***************************************************************************)
(* The session of two start() calls, with the callback that ran last kept  *)
(* in the history.                                                         *)
(***************************************************************************)

NextReset ==
    \/ StartListening(2)
    \/ StopListening
    \/ \E e \in 1..Len(engines) : OnStart(e)
    \/ \E e \in 1..Len(engines) : OnResult(e, FinalEvent(TextA))
    \/ \E e \in 1..Len(engines), stopThrows \in BOOLEAN :
           /\ consecutiveFailures < MaxCount
           /\ transientRetryCount < MaxCount
           /\ OnError(e, "network", stopThrows)
    \/ \E e \in 1..Len(engines) : OnEnd(e)
    \/ RestartTimerFires
    \/ GraceTimerFires

SpecReset == InitClear /\ [][NextReset]_vars

\* the step is a start() that makes an engine instance
StartCreatesEngine == StartListening(2) /\ Len(engines') = Len(engines) + 1

\* C26: immediately after a start() that creates an engine instance the session
\* is fully reset: the Segment Buffer is empty, both failure counters are 0,
\* manual-stop and restart-in-progress are false, recording is true, and the
\* engine's start primitive has been invoked exactly once.
C26_StartResetsSession ==
    [][StartCreatesEngine =>
           /\ finalSegments' = Empty
           /\ consecutiveFailures' = 0
           /\ transientRetryCount' = 0
           /\ ~isManualStop'
           /\ ~isRestarting'
           /\ isRecording'
           /\ calls' = <<"start">>
           /\ recognitionRef' = Len(engines')
           /\ engines'[recognitionRef'].status = "starting"]_vars

\* start() has just made the second engine of a run: a step of the first
\* session, which had a segment, a failure counted and a stop() whose grace
\* period has not run out, is the only way to this state
C26_Witness ==
    /\ hist.lastEntry = "startListening"
    /\ Len(engines) = 2
    /\ words # Empty
    /\ graceTimers > 0
    /\ restartTimers # Empty
    /\ finalSegments = Empty
    /\ isRecording
    /\ calls = <<"start">>

\* a grace continuation of an earlier stop() is pending in a session that a
\* later start() has begun: only start() clears the manual-stop flag that
\* stop() sets
StartedWithinGrace == graceTimers > 0 /\ isRecording /\ ~isManualStop

\* C27: when start() is called within the 150 ms grace period of a preceding
\* stop(), the grace continuation leaves the new session alone: after it has
\* run the new session is still recording, and a finalized result delivered to
\* the new session, whose buffer is still empty, is appended.
C27_GraceLeavesNewSession ==
    [][/\ (GraceTimerFires /\ StartedWithinGrace) => isRecording'
       /\ \A e \in 1..Len(engines) :
              (/\ OnResult(e, FinalEvent(TextA))
               /\ Len(engines) = 2
               /\ ~isManualStop
               /\ finalSegments = Empty
               /\ lastFinalText = Empty) => finalSegments' = <<TextA>>]_vars

(***************************************************************************)
(* Progress of a restart.  The timers the hook sets fire, and an engine    *)
(* that was told to stop or to abort delivers its end event; nothing else  *)
(* is required to happen.                                                  *)
(***************************************************************************)

InitLive == InitWith({"chrome"}, {TRUE}, "off")

NextLive ==
    \/ StartListening(2)
    \/ StopListening
    \/ \E e \in 1..Len(engines) : OnStart(e)
    \/ \E e \in 1..Len(engines), stopThrows \in BOOLEAN :
           /\ consecutiveFailures < MaxCount
           /\ transientRetryCount < MaxCount
           /\ OnError(e, "network", stopThrows)
    \/ \E e \in 1..Len(engines) : OnEnd(e)
    \/ RestartTimerFires
    \/ GraceTimerFires

\* the end event of an engine on which stop() or abort() took effect
EndAfterStop ==
    \E e \in 1..Len(engines) : engines[e].status \in {"stopping", "aborting"} /\ OnEnd(e)

SpecLive ==
    /\ InitLive
    /\ [][NextLive]_vars
    /\ WF_vars(RestartTimerFires)
    /\ WF_vars(GraceTimerFires)
    /\ WF_vars(EndAfterStop)

\* the step that led to this state invoked the engine's start primitive
StartInvokedLast == \E i \in 1..Len(calls) : calls[i] = "start"

RestartPending == isRestarting /\ isRecording /\ ~isManualStop

\* the flag is clear and the step that cleared it invoked the start primitive,
\* or the session has been stopped
RestartDone ==
    \/ ~isRestarting /\ StartInvokedLast
    \/ ~isRecording
    \/ isManualStop

\* C28: the restart-in-progress flag is never stuck: whenever it is set while
\* recording and not manually stopped, eventually either the engine's start
\* primitive is invoked and the flag is cleared, or the session is stopped.
C28_RestartFlagNeverStuck == RestartPending ~> RestartDone

\* a restart continuation has just cleared the flag and invoked the start
\* primitive on an engine that is still stopping, so that the call threw, in a
\* session that is recording and not manually stopped
C28_Witness ==
    /\ ~isRestarting
    /\ isRecording
    /\ ~isManualStop
    /\ calls = <<"start">>
    /\ engines[recognitionRef].status = "stopping"
    /\ consecutiveFailures > 0

(***************************************************************************)
(* Restarts after an end event, on both browser profiles.  The history     *)
(* keeps whether the caller called stop() or abort() since the oldest      *)
(* pending restart continuation was scheduled.                             *)
(***************************************************************************)

InitRestart == InitWith({"chrome", "edge"}, {TRUE}, "restart")

NextRestart ==
    \/ StartListening(2)
    \/ StopListening
    \/ Abort
    \/ \E e \in 1..Len(engines) : OnStart(e)
    \/ \E e \in 1..Len(engines) : OnResult(e, FinalEvent(TextA))
    \/ \E e \in 1..Len(engines) : OnEnd(e)
    \/ RestartTimerFires
    \/ GraceTimerFires
    \/ AdvanceTime(MaxNowShort)

SpecRestart == InitRestart /\ [][NextRestart]_vars

\* C29: an end event that arrives while recording, not manually stopped and
\* not already restarting sets restart-in-progress and schedules the
\* continuation with the profile delay (300 ms on Edge, 200 ms otherwise);
\* unless stop() or abort() intervenes, the continuation starts the engine
\* again, renews the session-start timestamp and clears restart-in-progress.
C29_EndRestartsAfterDelay ==
    [][/\ \A e \in 1..Len(engines) :
              (OnEnd(e) /\ isRecording /\ ~isManualStop /\ ~isRestarting) =>
                  /\ isRestarting'
                  /\ Len(restartDelays') = Len(restartDelays) + 1
                  /\ restartDelays'[Len(restartDelays')] = IF browser = "edge" THEN 300 ELSE 200
       /\ (RestartTimerFires /\ ~hist.callerStopped) =>
              /\ ~isRestarting'
              /\ sessionStart' = now
              /\ calls' = <<"start">>
              /\ engines'[recognitionRef'].status = "starting"
              /\ engines[recognitionRef].status = "ended"]_vars

\* the step takes one of the two failure counters from above 0 to 0
CounterReset ==
    \/ transientRetryCount > 0 /\ transientRetryCount' = 0
    \/ consecutiveFailures > 0 /\ consecutiveFailures' = 0

\* C30: the transient-retry counter and the consecutive-failure counter are
\* reset to 0 only by start() and by a result event: no end event, restart
\* continuation, stop continuation or error event takes either counter to 0.
C30_CountersResetOnlyByStartAndResult ==
    [][CounterReset =>
           \/ StartListening(1)
           \/ \E e \in 1..Len(engines) : OnResult(e, FinalEvent(TextA))]_vars

(***************************************************************************)
(* Result events of every shape (a finalized text, its fuzzy duplicate, an *)
(* interim text, both) in a session in which time passes and errors are    *)
(* counted, with the callback that ran last kept in the history.           *)
(***************************************************************************)

InitResults == InitWith({"chrome"}, {TRUE}, "events")

NextResults ==
    \/ StartListening(1)
    \/ StopListening
    \/ \E e \in 1..Len(engines) : OnStart(e)
    \/ \E e \in 1..Len(engines), results \in EventsOver({TextA, TextAPunct}, {TextA}) :
           OnResult(e, results)
    \/ \E e \in 1..Len(engines), k \in {"network", "not-allowed"}, stopThrows \in BOOLEAN :
           /\ consecutiveFailures < 2
           /\ transientRetryCount < 2
           /\ OnError(e, k, stopThrows)
    \/ \E e \in 1..Len(engines) : OnEnd(e)
    \/ RestartTimerFires
    \/ GraceTimerFires
    \/ AdvanceTime(MaxNowShort)

SpecResults == InitResults /\ [][NextResults]_vars

\* C31: every result event handled while the session is recording sets the
\* consecutive-failure counter and the transient-retry counter to 0 and renews
\* the last-result timestamp, whether or not the event holds a finalized span
\* and whether or not that span is discarded as a duplicate.
C31_ResultResetsCounters ==
    [][\A e \in 1..Len(engines), results \in EventsOver({TextA, TextAPunct}, {TextA}) :
           (OnResult(e, results) /\ isRecording) =>
               /\ consecutiveFailures' = 0
               /\ transientRetryCount' = 0
               /\ lastResultAt' = now]_vars

\* a result event has just been handled, later than the session began, in a
\* recording session whose buffer holds the one segment "a": a finalized "A."
\* or "a" was discarded as a duplicate, or the event was interim only
C31_Witness ==
    /\ hist.lastEntry = "onresult"
    /\ isRecording
    /\ finalSegments = <<TextA>>
    /\ lastFinalText = TextA
    /\ lastResultAt = now
    /\ lastResultAt > sessionStart
    /\ consecutiveFailures = 0
    /\ transientRetryCount = 0
    /\ isRestarting

(***************************************************************************)
(* Results that arrive around stop() and abort(): up to two sessions, the  *)
(* history keeping whether the caller stopped the session.                 *)
(***************************************************************************)

NextLate ==
    \/ StartListening(2)
    \/ StopListening
    \/ Abort
    \/ \E e \in 1..Len(engines) : OnStart(e)
    \/ \E e \in 1..Len(engines), results \in EventsOver({TextA}, {TextA}) :
           OnResult(e, results)
    \/ \E e \in 1..Len(engines) : OnEnd(e)
    \/ RestartTimerFires
    \/ GraceTimerFires

SpecLate == InitStop /\ [][NextLate]_vars

\* what the result event would do to the session had stop() not been called
AsIfNotStopped(results) ==
    [handleResult([Cur EXCEPT !.isManualStop = FALSE], results) EXCEPT !.isManualStop = TRUE]

\* stop() or abort() was called, and start() was not called since: only they
\* write the manual-stop flag
StoppedByCaller == hist.callerStopped /\ isManualStop

TextMark == <<"?">>

MemoFinals == {TextA, TextAPunct, TextMark}

NextMemo ==
    \/ StartListening(1)
    \/ \E e \in 1..Len(engines) : OnStart(e)
    \/ \E e \in 1..Len(engines), B \in MemoFinals : OnResult(e, FinalEvent(B))
    \/ \E e \in 1..Len(engines), stopThrows \in BOOLEAN :
           /\ consecutiveFailures < MaxCount
           /\ transientRetryCount < MaxCount
           /\ OnError(e, "network", stopThrows)
    \/ \E e \in 1..Len(engines) : OnEnd(e)
    \/ RestartTimerFires

SpecMemo == InitDedup /\ [][NextMemo]_vars

\* C33: every restart continuation clears the last-finalized-text memo, so the
\* first finalized result after a restart is never discarded by the
\* fuzzy-duplicate check, even when it equals the last finalized result
\* received before the restart: it passes the check and is appended.
C33_FirstResultAfterRestartKept ==
    [][/\ (RestartTimerFires /\ isRecording /\ ~isManualStop) => lastFinalText' = Empty
       /\ \A e \in 1..Len(engines), B \in MemoFinals :
              (OnResult(e, FinalEvent(B)) /\ isRecording /\ hist.restartedSince) =>
                  /\ ~areSimilarTexts(Trim(B), lastFinalText)
                  /\ Len(finalSegments') = Len(finalSegments) + 1]_vars

\* the words of the segments of the buffer, in order
RECURSIVE WordsOfSegments(_)
WordsOfSegments(segs) ==
    IF segs = Empty THEN Empty ELSE SplitWords(Head(segs)) \o WordsOfSegments(Tail(segs))

\* C34: in every reachable state the word list is exactly the whitespace split,
\* in order, of the segments of the Segment Buffer (every appended segment, from
\* a finalized result or from an interim flush, contributes its words), and its
\* sequence ids are strictly increasing, without repeats.
C34_WordsAreSplitOfBuffer ==
    /\ [i \in 1..Len(words) |-> words[i].text] = WordsOfSegments(finalSegments)
    /\ \A i, j \in 1..Len(words) : i < j => words[i].wordId < words[j].wordId

\* the words of a text after normalization
NormalizedWords(text) == SplitSpace(normalizeForComparison(text))

\* some leading word sequence of newWords occurs, as a sequence of words,
\* within the words of tail
LeadingWordsOccur(newWords, tail) ==
    \E k \in 1..Len(newWords) : Includes(tail, SubSeq(newWords, 1, k))

\* C35: getOverlapWithLastSegment returns newText unchanged whenever no leading
\* word sequence of newText occurs as a word sequence within the last five
\* words of lastSegment, and every word it drops from the front of newText
\* repeats a word of that tail.
C35_UnchangedWithoutSharedWords ==
    overlapCall.called =>
        LET newWords == NormalizedWords(overlapCall.newText)
            tail == LastN(NormalizedWords(overlapCall.lastSegment), 5)
            kept == NormalizedWords(overlapCall.result.trimmedText)
        IN  /\ ~LeadingWordsOccur(newWords, tail) =>
                   /\ ~overlapCall.result.hasOverlap
                   /\ overlapCall.result.trimmedText = overlapCall.newText
            /\ overlapCall.result.hasOverlap =>
                   \A i \in 1..(Len(newWords) - Len(kept)) :
                       \E j \in 1..Len(tail) : tail[j] = newWords[i]

(***************************************************************************)
(* areSimilarTexts on its own: the two arguments are drawn from the texts  *)
(* of up to MaxChars letters over a and b and from a few texts with        *)
(* capitals, punctuation and spaces, and the one step is the call.         *)
(***************************************************************************)

MaxChars == 6

LetterTexts == UNION {[1..n -> {"a", "b"}] : n \in 0..MaxChars}

DressedTexts ==
    {<<"A">>, <<"a", ".">>, <<" ", "a", "b">>, <<"A", " ", " ", "b", "!">>,
     <<"a", "b", "a", "b", "?">>, <<".">>}

SimilarInputs == LetterTexts \cup DressedTexts

InitSimilar ==
    /\ SessionIdle({"chrome"}, {TRUE}, "off")
    /\ overlapCall = NoCall
    /\ trimCall = NoCall
    /\ textCall \in {[called |-> FALSE, text1 |-> a, text2 |-> b] :
                         a \in SimilarInputs, b \in SimilarInputs}

CallAreSimilarTexts ==
    /\ ~textCall.called
    /\ textCall' = [called |-> TRUE,
                    text1 |-> textCall.text1,
                    text2 |-> textCall.text2,
                    result |-> areSimilarTexts(textCall.text1, textCall.text2),
                    swapped |-> areSimilarTexts(textCall.text2, textCall.text1)]
    /\ UNCHANGED <<sessionVars, overlapCall, trimCall>>

NextSimilar == CallAreSimilarTexts

SpecSimilar == InitSimilar /\ [][NextSimilar]_vars

MaxNormChars == 4

NormalizeInputs == UNION {[1..n -> {"a", "A", " ", ".", "?"}] : n \in 0..MaxNormChars}

InitNormalize ==
    /\ SessionIdle({"chrome"}, {TRUE}, "off")
    /\ overlapCall = NoCall
    /\ trimCall = NoCall
    /\ textCall \in {[called |-> FALSE, text |-> t] : t \in NormalizeInputs}

CallNormalize ==
    /\ ~textCall.called
    /\ textCall' = [called |-> TRUE,
                    text |-> textCall.text,
                    result |-> normalizeForComparison(textCall.text)]
    /\ UNCHANGED <<sessionVars, overlapCall, trimCall>>

NextNormalize == CallNormalize

SpecNormalize == InitNormalize /\ [][NextNormalize]_vars

\* the text has two spaces next to each other
HasSpaceRun(t) == \E i \in 1..(Len(t) - 1) : t[i] = " " /\ t[i + 1] = " "

\* C37: normalizeForComparison is idempotent, and its result has no leading or
\* trailing white space, no character of the punctuation set, no upper-case
\* letter and no run of more than one space.
C37_NormalizeIsCanonical ==
    textCall.called =>
        LET r == textCall.result
        IN  /\ normalizeForComparison(r) = r
            /\ Trim(r) = r
            /\ \A i \in 1..Len(r) : r[i] \notin PunctuationSet
            /\ ToLowerCase(r) = r
            /\ ~HasSpaceRun(r)

\* the windows of the backward scan whose RMS is more than 20% below the RMS
\* of the window scanned before them and above 30% of the end threshold
FadingWindows ==
    {k \in 1..Len(trimCall.audio.samples) :
         /\ WindowStart(k) >= 0
         /\ RmsDropped(WindowRms(k), WindowRms(k - 1))
         /\ RmsAbove(WindowRms(k), 3 * trimCall.config.silenceThreshold
                                     * trimCall.config.endThresholdMultiplier, 100)}

\* C38: in findSpeechEnd a window whose RMS is more than 20% below the RMS of
\* the window scanned before it, but above 30% of the end threshold, is not
\* part of the silence run: the boundary is never placed before the end of
\* such a window, so none of its samples is trimmed.
C38_FadingWindowIsKept ==
    (/\ trimCall.called
     /\ trimCall.audio.decoded
     /\ trimCall.config.trimTrailing)
    => \A k \in FadingWindows :
           trimCall.speechEnd >= WindowStart(k) + WindowSamplesOfCall

\* a fading window below the end threshold follows a louder one in the scan,
\* speech lies before both, and the tail is cut after the fading window
C38_Witness ==
    /\ trimCall.called
    /\ trimCall.audio.decoded
    /\ trimCall.config.trimTrailing
    /\ \E k \in FadingWindows :
           /\ ~EndsSpeechByThreshold(WindowRms(k), WindowRms(k - 1), trimCall.config)
           /\ WindowStart(k) > 0
           /\ trimCall.speechEnd = WindowStart(k) + WindowSamplesOfCall
    /\ trimCall.speechEnd < Len(trimCall.audio.samples)

\* the forward scan's windows: window j starts at sample j * windowSamples
LoudWindows ==
    {j \in 0..Len(trimCall.audio.samples) :
         /\ j * WindowSamplesOfCall < Len(trimCall.audio.samples)
         /\ RmsAtLeast(computeRMS(trimCall.audio.samples, j * WindowSamplesOfCall,
                                  WindowSamplesOfCall),
                       trimCall.config.silenceThreshold, 1)}

\* the sample at which the first window that meets silenceThreshold starts
FirstLoudOnset ==
    WindowSamplesOfCall * (CHOOSE j \in LoudWindows : \A l \in LoudWindows : j <= l)

\* Math.floor(sampleRate * maxLeadingTrim) of the call under observation
MaxTrimSamplesOfCall == SamplesIn(trimCall.audio.sampleRate, trimCall.config.maxLeadingTrim)

\* what the claim gives for a first loud window that starts at sample i
OnsetRule(i) ==
    IF i >= SamplesIn(trimCall.audio.sampleRate, trimCall.config.minSilenceDuration)
    THEN Max(0, i - (WindowSamplesOfCall \div 2))
    ELSE 0

\* C39 as stated: findSpeechStart never returns more than
\* floor(sampleRate * maxLeadingTrim), and whenever the first window that
\* meets silenceThreshold starts at sample i it returns max(0, i - half a
\* window) if i samples are at least minSilenceDuration, and 0 otherwise.
C39_Original ==
    (trimCall.called /\ trimCall.audio.decoded)
    => /\ trimCall.speechStart <= MaxTrimSamplesOfCall
       /\ LoudWindows # {} => trimCall.speechStart = OnsetRule(FirstLoudOnset)

\* C39: findSpeechStart never returns more than floor(sampleRate *
\* maxLeadingTrim); when the first window that meets silenceThreshold starts
\* at a sample i below that cap it returns max(0, i - half a window) if at
\* least minSilenceDuration of silence precedes it and 0 otherwise; in every
\* case the index returned is not past the onset of the first loud window.
C39_StartCappedAndAtOnset ==
    (trimCall.called /\ trimCall.audio.decoded)
    => /\ trimCall.speechStart <= MaxTrimSamplesOfCall
       /\ LoudWindows # {}
          => LET onset == FirstLoudOnset
             IN  /\ trimCall.speechStart <= onset
                 /\ onset < MaxTrimSamplesOfCall
                    => trimCall.speechStart = OnsetRule(onset)

\* enough silence precedes a first loud window below the cap, and the start
\* is put half a window before it
C39_Witness ==
    /\ trimCall.called
    /\ trimCall.audio.decoded
    /\ LoudWindows # {}
    /\ FirstLoudOnset < MaxTrimSamplesOfCall
    /\ WindowSamplesOfCall >= 2
    /\ trimCall.speechStart > 0
    /\ trimCall.speechStart = FirstLoudOnset - (WindowSamplesOfCall \div 2)

\* ms is the duration of count samples of the call's audio, to the nearest
\* millisecond
IsDurationOf(ms, count) ==
    LET off == ms * trimCall.audio.sampleRate - 1000 * count
    IN  /\ 2 * off <= trimCall.audio.sampleRate
        /\ 2 * off > -trimCall.audio.sampleRate

\* C40: whenever trimSilence returns a re-encoded blob, 0 <= speechStart <=
\* speechEnd <= total samples, the output holds exactly speechEnd - speechStart
\* samples, copied from the original from speechStart on, and trimmedLeadingMs
\* and trimmedTrailingMs are the durations in milliseconds of speechStart and
\* of total - speechEnd samples.
C40_ReencodedIsTheSlice ==
    (trimCall.called /\ trimCall.result.blob = "wav")
    => LET total == Len(trimCall.audio.samples)
           out == trimCall.result.samples
       IN  /\ 0 <= trimCall.speechStart
           /\ trimCall.speechStart <= trimCall.speechEnd
           /\ trimCall.speechEnd <= total
           /\ Len(out) = trimCall.speechEnd - trimCall.speechStart
           /\ \A i \in 1..Len(out) : out[i] = trimCall.audio.samples[trimCall.speechStart + i]
           /\ IsDurationOf(trimCall.result.trimmedLeadingMs, trimCall.speechStart)
           /\ IsDurationOf(trimCall.result.trimmedTrailingMs, total - trimCall.speechEnd)

\* audio is re-encoded with both ends cut, at a rate where the durations are
\* not whole milliseconds
C40_Witness ==
    /\ trimCall.called
    /\ trimCall.result.blob = "wav"
    /\ trimCall.audio.sampleRate = 1500
    /\ trimCall.speechStart > 0
    /\ trimCall.speechEnd < Len(trimCall.audio.samples)
    /\ trimCall.result.trimmedLeadingMs > 0
    /\ trimCall.result.trimmedTrailingMs > 0

============================================================================
